---------------------------- MODULE Spec2Model ----------------------------
(***************************************************************************)
(* A model of next-pwa-turbo's security utilities (utils/security.ts),     *)
(* runtime-caching strategy resolver (worker/cache-strategies.ts) and the  *)
(* operations built on them.                                               *)
(*                                                                         *)
(* Text is modelled as a sequence of characters, each character a one-     *)
(* element token: "a", "/", "." ...  Characters that TLA+ cannot write as  *)
(* one character are named tokens (NUL, LS, PS below).  A few tokens stand *)
(* for a run of ordinary letters (for example "api"); no operation of the  *)
(* program looks inside such a run.                                        *)
(***************************************************************************)
EXTENDS Integers, Sequences, FiniteSets, TLC

VARIABLES
    pathIn,        \* sanitizePath: the argument (a JavaScript value)
    pathOut,       \* sanitizePath(pathIn), or Pending
    pathAgain,     \* sanitizePath(pathOut), or Pending
    escIn,         \* escapeForServiceWorker: the argument (a JavaScript value)
    escOut,        \* its outcome: the text returned, or an exception
    escParsed,     \* JSON.parse of the text returned
    ruleIn,        \* sanitizeRuntimeCachingRule: the candidate (a JavaScript value)
    ruleOut,       \* its result: [done, val]
    customIn,      \* mergeRuntimeCaching: the caller's rules
    defaultsIn,    \* mergeRuntimeCaching: the default rules
    merged,        \* its result: [done, rules]
    request,       \* a request reaching the router
    matched,       \* the rule that handles it: [done, rule] (rule 0: none)
    genOptions,    \* the options of generatePrecacheManifest
    genFs,         \* the file system the generator runs over
    genClock,      \* Date.now(), in milliseconds since the first run read it
    genFirst,      \* the outcome of the first run
    genSecond,     \* the outcome of a second run with the same options
    pwaArgs,       \* writePWAManifest / readPWAManifest: [path, manifest, projectRoot]
    pwaDisk,       \* the file the path names: [state, text, writable]
    pwaWrite,      \* the outcome of writePWAManifest
    pwaRead,       \* the outcome of readPWAManifest
    scopeIn,       \* validateScope: the arguments [scope, basePath] (JavaScript values)
    scopeOut,      \* its result: [done, val]
    dfHeap,        \* getDefaultRuntimeCaching: the objects allocated so far, by address
    dfCalls,       \* the calls made: [list, rules, returned]
    dfMutations,   \* the caller's mutations: how many calls had been made at each
    swFallbacks,   \* service worker: __PWA_FALLBACKS__, [configured, urls]
    swOfflinePage, \* __PWA_OFFLINE_FALLBACK_PAGE__ ("" for null)
    swCache,       \* the URLs the cache 'offline-fallbacks' holds
    swOther,       \* the URLs the other caches hold
    swInstall,     \* the install step: [phase, before, urls, pending, failed]
    swHandler,     \* which catch handler is registered
    swResponse,    \* the catch handler's last answer: [kind, request, category, url, failing]
    hkClient,      \* useOnlineStatus: whether isClient() holds
    hkOnLine,      \* navigator.onLine
    hkPhase,       \* the component: none, rendered, mounted or unmounted
    hkReturned,    \* the status the hook returned at the last render
    hkQueue,       \* the state updates not rendered yet
    hkEvents,      \* the events the listeners handled since mount
    hkReported,    \* navigator.onLine as the effect read it
    adConfig,      \* createPWABuildAdapter: the PWA config [disable, devOptions, additionalManifestEntries]
    adContext,     \* the build context [isProduction, projectDir, outputDir]
    adFs,          \* the file system the hooks read
    adDisk,        \* the file at the manifest's output path
    adResults,     \* the hooks called so far: [hook, settled, error, logs, before]
    cmOptions,     \* compileServiceWorker: its options [manifest, mode, config]
    cmResult,      \* its result: none, success or failed
    cmDefine,      \* the define table handed to esbuild: [name, text, by]
    cmWorker       \* the compiled worker's start: [started, read, error]

pathVars == <<pathIn, pathOut, pathAgain>>
escVars == <<escIn, escOut, escParsed>>
ruleVars == <<ruleIn, ruleOut>>
mergeVars == <<customIn, defaultsIn, merged>>
routeVars == <<request, matched>>
genVars == <<genOptions, genFs, genClock, genFirst, genSecond>>
pwaVars == <<pwaArgs, pwaDisk, pwaWrite, pwaRead>>
scopeVars == <<scopeIn, scopeOut>>
dfVars == <<dfHeap, dfCalls, dfMutations>>
swVars == <<swFallbacks, swOfflinePage, swCache, swOther, swInstall, swHandler, swResponse>>
hkVars == <<hkClient, hkOnLine, hkPhase, hkReturned, hkQueue, hkEvents, hkReported>>
adVars == <<adConfig, adContext, adFs, adDisk, adResults>>
cmVars == <<cmOptions, cmResult, cmDefine, cmWorker>>

earlierVars == <<pathVars, escVars, ruleVars, mergeVars, routeVars, genVars, pwaVars>>
laterVars == <<scopeVars, dfVars, swVars, hkVars, adVars, cmVars>>
allButScopeVars == <<earlierVars, dfVars, swVars, hkVars, adVars, cmVars>>
allButDefaultsVars == <<earlierVars, scopeVars, swVars, hkVars, adVars, cmVars>>
allButSwVars == <<earlierVars, scopeVars, dfVars, hkVars, adVars, cmVars>>
allButHookVars == <<earlierVars, scopeVars, dfVars, swVars, adVars, cmVars>>
allButAdapterVars == <<earlierVars, scopeVars, dfVars, swVars, hkVars, cmVars>>
allButCompileVars == <<earlierVars, scopeVars, dfVars, swVars, hkVars, adVars>>

vars ==
    <<pathIn, pathOut, pathAgain, escIn, escOut, escParsed, ruleIn, ruleOut,
      customIn, defaultsIn, merged, request, matched,
      genOptions, genFs, genClock, genFirst, genSecond,
      pwaArgs, pwaDisk, pwaWrite, pwaRead,
      scopeIn, scopeOut,
      dfHeap, dfCalls, dfMutations,
      swFallbacks, swOfflinePage, swCache, swOther, swInstall, swHandler, swResponse,
      hkClient, hkOnLine, hkPhase, hkReturned, hkQueue, hkEvents, hkReported,
      adConfig, adContext, adFs, adDisk, adResults,
      cmOptions, cmResult, cmDefine, cmWorker>>

\* A result that has not been computed yet.
Pending == [done |-> FALSE, str |-> <<>>]
\* A computed text result.
Done(s) == [done |-> TRUE, str |-> s]

-----------------------------------------------------------------------------
(* Characters *)

BSL == "\\"            \* the backslash
NUL == "<U+0000>"      \* U+0000
LS  == "<U+2028>"      \* LINE SEPARATOR
PS  == "<U+2029>"      \* PARAGRAPH SEPARATOR
NL  == "<U+000A>"      \* U+000A
TAB == "<U+0009>"      \* U+0009
BTK == "<BACKTICK>"    \* U+0060, the template-literal delimiter

\* String.prototype.trim's white space (the part of it the model draws from).
IsWhiteSpace(c) == c \in {" ", TAB, NL, LS, PS}

\* All sequences over alphabet A of length at most n.
SeqsUpTo(A, n) == UNION {[1..k -> A] : k \in 0..n}

\* s.includes(t)
Includes(s, t) ==
    \E i \in 1..(Len(s) - Len(t) + 1) : SubSeq(s, i, i + Len(t) - 1) = t

\* s.startsWith(t)
StartsWith(s, t) == Len(t) <= Len(s) /\ SubSeq(s, 1, Len(t)) = t

\* s.endsWith(t)
EndsWith(s, t) == Len(t) <= Len(s) /\ SubSeq(s, Len(s) - Len(t) + 1, Len(s)) = t

-----------------------------------------------------------------------------
(* utils/security.ts: sanitizePath *)

\* .trim()
RECURSIVE TrimLeft(_)
TrimLeft(s) ==
    IF s # <<>> /\ IsWhiteSpace(Head(s)) THEN TrimLeft(Tail(s)) ELSE s

RECURSIVE TrimRight(_)
TrimRight(s) ==
    IF s # <<>> /\ IsWhiteSpace(s[Len(s)])
    THEN TrimRight(SubSeq(s, 1, Len(s) - 1))
    ELSE s

Trim(s) == TrimRight(TrimLeft(s))

\* .replace(/\\/g, '/')
BackslashesToSlashes(s) == [i \in 1..Len(s) |-> IF s[i] = BSL THEN "/" ELSE s[i]]

\* .replace(/\0/g, '')
StripNul(s) == SelectSeq(s, LAMBDA c : c # NUL)

\* .replace(/\.\.(?:\/|$)/g, ''): a left-to-right scan; ".." is removed with
\* the "/" that follows it, or alone when it ends the text.
RECURSIVE StripDotDotFrom(_, _)
StripDotDotFrom(s, i) ==
    IF i > Len(s) THEN <<>>
    ELSE IF i + 2 <= Len(s) /\ s[i] = "." /\ s[i + 1] = "." /\ s[i + 2] = "/"
         THEN StripDotDotFrom(s, i + 3)
    ELSE IF i + 1 = Len(s) /\ s[i] = "." /\ s[i + 1] = "."
         THEN <<>>
    ELSE <<s[i]>> \o StripDotDotFrom(s, i + 1)

StripDotDotSegments(s) == StripDotDotFrom(s, 1)

\* The end of the run of "/" that starts at i (i itself when s[i] is no "/").
RECURSIVE SkipSlashes(_, _)
SkipSlashes(s, i) ==
    IF i <= Len(s) /\ s[i] = "/" THEN SkipSlashes(s, i + 1) ELSE i

\* .replace(/\.\/+/g, ''): "." and the whole run of "/" after it.
RECURSIVE StripDotSlashFrom(_, _)
StripDotSlashFrom(s, i) ==
    IF i > Len(s) THEN <<>>
    ELSE IF i + 1 <= Len(s) /\ s[i] = "." /\ s[i + 1] = "/"
         THEN StripDotSlashFrom(s, SkipSlashes(s, i + 1))
    ELSE <<s[i]>> \o StripDotSlashFrom(s, i + 1)

StripDotSlash(s) == StripDotSlashFrom(s, 1)

\* .replace(/\/+/g, '/')
RECURSIVE CollapseSlashesFrom(_, _)
CollapseSlashesFrom(s, i) ==
    IF i > Len(s) THEN <<>>
    ELSE IF s[i] = "/" THEN <<"/">> \o CollapseSlashesFrom(s, SkipSlashes(s, i))
    ELSE <<s[i]>> \o CollapseSlashesFrom(s, i + 1)

CollapseSlashes(s) == CollapseSlashesFrom(s, 1)

\* .replace(/^\/+/, '')
StripLeadingSlashes(s) == SubSeq(s, SkipSlashes(s, 1), Len(s))

\* .replace(/\/+$/, '')
RECURSIVE StripTrailingSlashes(_)
StripTrailingSlashes(s) ==
    IF s # <<>> /\ s[Len(s)] = "/"
    THEN StripTrailingSlashes(SubSeq(s, 1, Len(s) - 1))
    ELSE s

\* .replace(/\.\./g, ''): every ".." found by a left-to-right scan.
RECURSIVE RemoveDotDotFrom(_, _)
RemoveDotDotFrom(s, i) ==
    IF i > Len(s) THEN <<>>
    ELSE IF i + 1 <= Len(s) /\ s[i] = "." /\ s[i + 1] = "."
         THEN RemoveDotDotFrom(s, i + 2)
    ELSE <<s[i]>> \o RemoveDotDotFrom(s, i + 1)

\* The second pass left out: the first replace chain alone.
SecondPass_Skipped(s) == s

\* while (sanitized.includes('..')) sanitized = sanitized.replace(/\.\./g, '')
RECURSIVE SecondPass(_)
SecondPass(s) ==
    IF Includes(s, <<".", ".">>) THEN SecondPass(RemoveDotDotFrom(s, 1)) ELSE s

\* A JavaScript value handed to a function that expects text.
TextValue(s) == [type |-> "string", str |-> s]
NonStringValues ==
    {[type |-> t, str |-> <<>>] : t \in {"null", "undefined", "number", "object"}}

sanitizePath(path) ==
    IF path.type # "string" THEN <<>>
    ELSE LET firstPass ==
                 StripLeadingSlashes(
                 CollapseSlashes(
                 StripDotSlash(
                 StripDotDotSegments(
                 StripNul(
                 BackslashesToSlashes(
                 Trim(path.str)))))))
         IN  StripTrailingSlashes(
             StripLeadingSlashes(
             CollapseSlashes(
             SecondPass(firstPass))))


-----------------------------------------------------------------------------
(* JavaScript values, as far as escapeForServiceWorker tells them apart.    *)
(* Every value is a record of the same shape: t its type, s its text (a     *)
(* string), n its number (a number or a bigint), items its elements (an     *)
(* array) or its properties in insertion order (an object).                 *)

JsValue(t, s, n, items) == [t |-> t, s |-> s, n |-> n, items |-> items]

JsUndefined == JsValue("undefined", <<>>, 0, <<>>)
\* A function; s is its source text (what toString() returns).
JsFunctionOf(text) == JsValue("function", text, 0, <<>>)
JsFunction  == JsFunctionOf(<<"() => {}">>)
\* A RegExp built from pattern text (a literal /pattern/ or new RegExp(pattern)).
JsRegExp(pattern) == JsValue("regexp", pattern, 0, <<>>)
\* A number that is no integer.
JsFraction  == JsValue("fraction", <<>>, 0, <<>>)
JsSymbol    == JsValue("symbol", <<>>, 0, <<>>)
JsNull      == JsValue("null", <<>>, 0, <<>>)
JsTrue      == JsValue("true", <<>>, 0, <<>>)
JsFalse     == JsValue("false", <<>>, 0, <<>>)
JsBigInt(n) == JsValue("bigint", <<>>, n, <<>>)
JsNumber(n) == JsValue("number", <<>>, n, <<>>)
JsString(s) == JsValue("string", s, 0, <<>>)
JsArray(items) == JsValue("array", <<>>, 0, items)
\* props: a sequence of [key |-> text, val |-> value]
JsObject(props) == JsValue("object", <<>>, 0, props)
\* An object one of whose properties is the object itself.
JsCyclic    == JsValue("cyclic", <<>>, 0, <<>>)

Prop(k, v) == [key |-> k, val |-> v]

\* A property name: a text of one token.
Key(name) == <<name>>

\* typeof v
TypeOf(v) ==
    CASE v.t \in {"null", "array", "object", "regexp", "cyclic"} -> "object"
      [] v.t \in {"number", "fraction"} -> "number"
      [] v.t \in {"true", "false"} -> "boolean"
      [] OTHER -> v.t

\* obj[key]: undefined when obj has no such property.
Get(obj, key) ==
    IF obj.t = "object" /\ \E i \in 1..Len(obj.items) : obj.items[i].key = key
    THEN obj.items[CHOOSE i \in 1..Len(obj.items) : obj.items[i].key = key].val
    ELSE JsUndefined

\* Object.keys(obj)
Keys(obj) == {obj.items[i].key : i \in 1..Len(obj.items)}

\* RegExp.prototype.source: the pattern text with every "/" that is not
\* already escaped written as "\/"; "(?:)" for the empty pattern.
RECURSIVE EscapePatternFrom(_, _)
EscapePatternFrom(p, i) ==
    IF i > Len(p) THEN <<>>
    ELSE IF p[i] = BSL /\ i < Len(p) THEN <<BSL, p[i + 1]>> \o EscapePatternFrom(p, i + 2)
    ELSE IF p[i] = "/" THEN <<BSL, "/">> \o EscapePatternFrom(p, i + 1)
    ELSE <<p[i]>> \o EscapePatternFrom(p, i + 1)

RegExpSource(re) ==
    IF re.s = <<>> THEN <<"(", "?", ":", ")">> ELSE EscapePatternFrom(re.s, 1)

\* RegExp.prototype.toString: "/" source "/" flags (the model's have no flags).
RegExpToString(re) == <<"/">> \o RegExpSource(re) \o <<"/">>

\* Number.prototype.toString / BigInt.prototype.toString of an integer.
DigitChar(d) == <<"0", "1", "2", "3", "4", "5", "6", "7", "8", "9">>[d + 1]

RECURSIVE NatToText(_)
NatToText(n) ==
    IF n < 10 THEN <<DigitChar(n)>> ELSE NatToText(n \div 10) \o <<DigitChar(n % 10)>>

IntToText(n) == IF n < 0 THEN <<"-">> \o NatToText(-n) ELSE NatToText(n)

Text_null == <<"n", "u", "l", "l">>
Text_true == <<"t", "r", "u", "e">>
Text_false == <<"f", "a", "l", "s", "e">>
Text_undefined == <<"u", "n", "d", "e", "f", "i", "n", "e", "d">>

\* JSON.stringify's QuoteJSONString: one character of a string.
QuoteJSONChar(c) ==
    CASE c = "\"" -> <<BSL, "\"">>
      [] c = BSL -> <<BSL, BSL>>
      [] c = NL -> <<BSL, "n">>
      [] c = TAB -> <<BSL, "t">>
      [] c = NUL -> <<BSL, "u", "0", "0", "0", "0">>
      [] OTHER -> <<c>>

RECURSIVE QuoteJSONBody(_)
QuoteJSONBody(s) ==
    IF s = <<>> THEN <<>> ELSE QuoteJSONChar(Head(s)) \o QuoteJSONBody(Tail(s))

QuoteJSONString(s) == <<"\"">> \o QuoteJSONBody(s) \o <<"\"">>

\* JSON.stringify(value): the text, or threw (a cycle, a bigint inside), or
\* undef (JSON.stringify returned undefined).
Serialized(str) == [threw |-> FALSE, undef |-> FALSE, str |-> str]
SerializeThrew == [threw |-> TRUE, undef |-> FALSE, str |-> <<>>]
SerializeUndefined == [threw |-> FALSE, undef |-> TRUE, str |-> <<>>]

RECURSIVE JSONstringify(_)
RECURSIVE StringifyItems(_, _)
RECURSIVE StringifyProps(_, _)

\* The elements of an array from index i on, comma-separated; undefined,
\* functions and symbols are written as null.
StringifyItems(items, i) ==
    IF i > Len(items) THEN Serialized(<<>>)
    ELSE LET one == JSONstringify(items[i])
             rest == StringifyItems(items, i + 1)
             text == IF one.undef THEN Text_null ELSE one.str
         IN  IF one.threw \/ rest.threw THEN SerializeThrew
             ELSE Serialized(text \o (IF i < Len(items) THEN <<",">> ELSE <<>>) \o rest.str)

\* The properties of an object from index i on; a property whose value is
\* undefined, a function or a symbol is left out.
StringifyProps(props, i) ==
    IF i > Len(props) THEN Serialized(<<>>)
    ELSE LET one == JSONstringify(props[i].val)
             rest == StringifyProps(props, i + 1)
         IN  IF one.threw \/ rest.threw THEN SerializeThrew
             ELSE IF one.undef THEN rest
             ELSE Serialized(QuoteJSONString(props[i].key) \o <<":">> \o one.str
                             \o (IF rest.str # <<>> THEN <<",">> ELSE <<>>) \o rest.str)

JSONstringify(v) ==
    CASE v.t \in {"undefined", "function", "symbol"} -> SerializeUndefined
      [] v.t \in {"bigint", "cyclic"} -> SerializeThrew
      [] v.t = "null" -> Serialized(Text_null)
      [] v.t = "true" -> Serialized(Text_true)
      [] v.t = "false" -> Serialized(Text_false)
      [] v.t = "number" -> Serialized(IntToText(v.n))
      [] v.t = "string" -> Serialized(QuoteJSONString(v.s))
      [] v.t = "array" ->
            LET r == StringifyItems(v.items, 1)
            IN  IF r.threw THEN r ELSE Serialized(<<"[">> \o r.str \o <<"]">>)
      [] v.t = "object" ->
            LET r == StringifyProps(v.items, 1)
            IN  IF r.threw THEN r ELSE Serialized(<<"{">> \o r.str \o <<"}">>)

-----------------------------------------------------------------------------
(* utils/security.ts: escapeForServiceWorker *)

\* .replace(/\\/g, '\\\\')
RECURSIVE EscapeBackslashes(_)
EscapeBackslashes(s) ==
    IF s = <<>> THEN <<>>
    ELSE (IF Head(s) = BSL THEN <<BSL, BSL>> ELSE <<Head(s)>>) \o EscapeBackslashes(Tail(s))

\* .replace(/BTK/g, '\\BTK'), BTK the backtick
RECURSIVE EscapeBackticks(_)
EscapeBackticks(s) ==
    IF s = <<>> THEN <<>>
    ELSE (IF Head(s) = BTK THEN <<BSL, BTK>> ELSE <<Head(s)>>) \o EscapeBackticks(Tail(s))

\* Whether text t stands in s at index i.
MatchAt(s, i, t) == i + Len(t) - 1 <= Len(s) /\ SubSeq(s, i, i + Len(t) - 1) = t

\* .replace(/\$\{/g, '\\${')
RECURSIVE EscapeInterpolationFrom(_, _)
EscapeInterpolationFrom(s, i) ==
    IF i > Len(s) THEN <<>>
    ELSE IF MatchAt(s, i, <<"$", "{">>)
         THEN <<BSL, "$", "{">> \o EscapeInterpolationFrom(s, i + 2)
    ELSE <<s[i]>> \o EscapeInterpolationFrom(s, i + 1)

EscapeInterpolation(s) == EscapeInterpolationFrom(s, 1)

\* The /i flag: a letter and its other case match each other.
ToLower(c) ==
    CASE c = "S" -> "s" [] c = "C" -> "c" [] c = "R" -> "r"
      [] c = "I" -> "i" [] c = "P" -> "p" [] c = "T" -> "t"
      [] OTHER -> c

LowerText(s) == [i \in 1..Len(s) |-> ToLower(s[i])]

Text_ScriptClose == <<"<", "/", "s", "c", "r", "i", "p", "t", ">">>
Text_ScriptCloseEscaped == <<"<", BSL, "/", "s", "c", "r", "i", "p", "t", ">">>

MatchAtIgnoreCase(s, i, t) ==
    i + Len(t) - 1 <= Len(s) /\ LowerText(SubSeq(s, i, i + Len(t) - 1)) = t

\* .replace(/<\/script>/gi, '<\\/script>'): the replacement is the fixed
\* lower-case text, whatever the case of the match.
RECURSIVE EscapeScriptCloseFrom(_, _)
EscapeScriptCloseFrom(s, i) ==
    IF i > Len(s) THEN <<>>
    ELSE IF MatchAtIgnoreCase(s, i, Text_ScriptClose)
         THEN Text_ScriptCloseEscaped \o EscapeScriptCloseFrom(s, i + Len(Text_ScriptClose))
    ELSE <<s[i]>> \o EscapeScriptCloseFrom(s, i + 1)

EscapeScriptClose(s) == EscapeScriptCloseFrom(s, 1)

Text_CommentOpen == <<"<", "!", "-", "-">>

\* .replace(/<!--/g, '<\\!--')
RECURSIVE EscapeCommentOpenFrom(_, _)
EscapeCommentOpenFrom(s, i) ==
    IF i > Len(s) THEN <<>>
    ELSE IF MatchAt(s, i, Text_CommentOpen)
         THEN <<"<", BSL, "!", "-", "-">> \o EscapeCommentOpenFrom(s, i + 4)
    ELSE <<s[i]>> \o EscapeCommentOpenFrom(s, i + 1)

EscapeCommentOpen(s) == EscapeCommentOpenFrom(s, 1)

\* .replace(/ /g, '\\u2028').replace(/ /g, '\\u2029')
RECURSIVE EscapeLineTerminators(_)
EscapeLineTerminators(s) ==
    IF s = <<>> THEN <<>>
    ELSE (CASE Head(s) = LS -> <<BSL, "u", "2", "0", "2", "8">>
            [] Head(s) = PS -> <<BSL, "u", "2", "0", "2", "9">>
            [] OTHER -> <<Head(s)>>) \o EscapeLineTerminators(Tail(s))

\* The same replacements with the backslashes doubled last, not first.
EscapeChain_BackslashesLast(serialized) ==
    EscapeBackslashes(
    EscapeLineTerminators(
    EscapeCommentOpen(
    EscapeScriptClose(
    EscapeInterpolation(
    EscapeBackticks(serialized))))))

\* The chain of replacements applied to the serialized text, in its order.
EscapeChain(serialized) ==
    EscapeLineTerminators(
    EscapeCommentOpen(
    EscapeScriptClose(
    EscapeInterpolation(
    EscapeBackticks(
    EscapeBackslashes(serialized))))))

\* The outcome of a call: the text returned, or an exception reaching the caller.
Returned(str) == [done |-> TRUE, threw |-> FALSE, str |-> str]
Threw == [done |-> TRUE, threw |-> TRUE, str |-> <<>>]
NotCalled == [done |-> FALSE, threw |-> FALSE, str |-> <<>>]

\* JSON.stringify without the try/catch around it.
SerializeGuarded_NoCatch(value) == JSONstringify(value)

\* try { serialized = JSON.stringify(value) } catch { return 'null' }
\* if (serialized === undefined) return 'null'
SerializeGuarded(value) ==
    LET r == JSONstringify(value)
    IN  IF r.threw \/ r.undef THEN [r EXCEPT !.threw = FALSE, !.undef = TRUE] ELSE r

escapeForServiceWorker(value) ==
    CASE value.t = "undefined" -> Returned(Text_undefined)
      [] value.t = "function" -> Returned(Text_null)
      [] value.t = "symbol" -> Returned(Text_null)
      [] value.t = "bigint" -> Returned(<<"\"">> \o IntToText(value.n) \o <<"\"">>)
      [] OTHER ->
            LET r == SerializeGuarded(value)
            IN  IF r.threw THEN Threw
                ELSE IF r.undef THEN Returned(Text_null)
                ELSE Returned(EscapeChain(r.str))

-----------------------------------------------------------------------------
(* utils/security.ts: sanitizeRuntimeCachingRule *)

ALLOWED_HANDLERS ==
    <<"CacheFirst", "CacheOnly", "NetworkFirst", "NetworkOnly", "StaleWhileRevalidate">>

\* ALLOWED_HANDLERS.includes(handler), handler a string
IsAllowedHandler(handler) ==
    \E i \in 1..Len(ALLOWED_HANDLERS) : handler.s = <<ALLOWED_HANDLERS[i]>>

\* The characters of [a-zA-Z0-9_-] the model draws cache names from.
IsCacheNameChar(c) == c \in {"a", "b", "Z", "0", "9", "_", "-"}

\* /^[a-zA-Z0-9_-]+$/.test(cacheName) && cacheName.length <= 100
IsSafeCacheName(name) ==
    /\ Len(name) >= 1
    /\ \A i \in 1..Len(name) : IsCacheNameChar(name[i])
    /\ Len(name) <= 100

\* typeof v === 'number' && Number.isInteger(v) && v > 0 && v <= max
IsIntegerIn(v, max) == v.t = "number" /\ v.n > 0 /\ v.n <= max

\* The properties kept: those whose value passed (the others are left out).
KeepProps(props) == SelectSeq(props, LAMBDA p : p.val.t # "undefined")

\* The expiration object kept only when both of its fields pass.
SanitizedExpiration_AllOrNothing(expiration) ==
    LET maxEntries == Get(expiration, Key("maxEntries"))
        maxAgeSeconds == Get(expiration, Key("maxAgeSeconds"))
    IN  IF IsIntegerIn(maxEntries, 10000) /\ IsIntegerIn(maxAgeSeconds, 31536000)
        THEN JsObject(<<Prop(Key("maxEntries"), maxEntries),
                        Prop(Key("maxAgeSeconds"), maxAgeSeconds)>>)
        ELSE JsObject(<<>>)

\* The expiration object rebuilt from its two allow-listed fields.
SanitizedExpiration(expiration) ==
    LET maxEntries == Get(expiration, Key("maxEntries"))
        maxAgeSeconds == Get(expiration, Key("maxAgeSeconds"))
    IN  JsObject(KeepProps(<<
            Prop(Key("maxEntries"),
                 IF IsIntegerIn(maxEntries, 10000) THEN maxEntries ELSE JsUndefined),
            Prop(Key("maxAgeSeconds"),
                 IF IsIntegerIn(maxAgeSeconds, 31536000) THEN maxAgeSeconds ELSE JsUndefined)
        >>))

\* The options object handed through whole.
SanitizedOptions_PassThrough(options) == options

\* The options object rebuilt from its allow-listed fields.
SanitizedOptions(options) ==
    LET cacheName == Get(options, Key("cacheName"))
        expiration == Get(options, Key("expiration"))
        timeout == Get(options, Key("networkTimeoutSeconds"))
        sanitizedExpiration ==
            IF TypeOf(expiration) = "object" /\ expiration.t # "null"
            THEN SanitizedExpiration(expiration)
            ELSE JsObject(<<>>)
    IN  JsObject(KeepProps(<<
            Prop(Key("cacheName"),
                 IF TypeOf(cacheName) = "string" /\ IsSafeCacheName(cacheName.s)
                 THEN cacheName ELSE JsUndefined),
            Prop(Key("expiration"),
                 IF Keys(sanitizedExpiration) # {} THEN sanitizedExpiration ELSE JsUndefined),
            Prop(Key("networkTimeoutSeconds"),
                 IF IsIntegerIn(timeout, 300) THEN timeout ELSE JsUndefined)
        >>))

\* The handler check left to a type check.
HandlerAccepted_AnyString(handler) == TypeOf(handler) = "string"

\* typeof handler === 'string' && ALLOWED_HANDLERS.includes(handler)
HandlerAccepted(handler) == TypeOf(handler) = "string" /\ IsAllowedHandler(handler)

sanitizeRuntimeCachingRule(rule) ==
    IF rule.t = "null" \/ TypeOf(rule) # "object" THEN JsNull
    ELSE
    LET pattern == Get(rule, Key("urlPattern"))
        handler == Get(rule, Key("handler"))
        options == Get(rule, Key("options"))
        patternOk ==
            \/ TypeOf(pattern) = "string" /\ Len(pattern.s) # 0 /\ ~Includes(pattern.s, <<NUL>>)
            \/ pattern.t = "regexp"
        urlPattern ==
            IF pattern.t = "regexp" THEN JsString(RegExpToString(pattern)) ELSE pattern
        sanitizedOptions ==
            IF options.t # "undefined" /\ TypeOf(options) = "object" /\ options.t # "null"
            THEN SanitizedOptions(options)
            ELSE JsObject(<<>>)
    IN  IF ~patternOk THEN JsNull
        ELSE IF ~HandlerAccepted(handler) THEN JsNull
        ELSE JsObject(KeepProps(<<
                Prop(Key("urlPattern"), urlPattern),
                Prop(Key("handler"), handler),
                Prop(Key("options"),
                     IF Keys(sanitizedOptions) # {} THEN sanitizedOptions ELSE JsUndefined)
             >>))

-----------------------------------------------------------------------------
(* worker/cache-strategies.ts: getDefaultRuntimeCaching *)

DAY_IN_SECONDS == 24 * 60 * 60
YEAR_IN_SECONDS == 365 * DAY_IN_SECONDS

\* A pattern text: special characters one by one, runs of letters as one token.
Pattern_GoogleFontsStylesheets ==
    <<"^", "https:", "/", "/", "fonts", BSL, ".", "googleapis", BSL, ".", "com", "/", ".", "*">>
Pattern_GoogleFontsWebfonts ==
    <<"^", "https:", "/", "/", "fonts", BSL, ".", "gstatic", BSL, ".", "com", "/", ".", "*">>
Pattern_Cdn ==
    <<"^", "https:", "/", "/", "cdn", BSL, ".", "jsdelivr", BSL, ".", "net", "/", ".", "*", "|",
      "^", "https:", "/", "/", "cdnjs", BSL, ".", "cloudflare", BSL, ".", "com", "/", ".", "*", "|",
      "^", "https:", "/", "/", "unpkg", BSL, ".", "com", "/", ".", "*">>
Pattern_Api == <<"^", "/", "api", "/", ".", "*">>
Pattern_StaticFiles ==
    <<BSL, ".", "(", "ico", "|", "png", "|", "svg", "|", "txt", "|", "woff2", "?", ")", "$">>
Pattern_CatchAll == <<".", "*">>

\* The matcher functions, each named by its source text.
Fn_Image == JsFunctionOf(<<"({ request }) => request.destination === 'image'">>)
Fn_Audio == JsFunctionOf(<<"({ request }) => request.destination === 'audio'">>)
Fn_Video == JsFunctionOf(<<"({ request }) => request.destination === 'video'">>)
Fn_Script ==
    JsFunctionOf(<<"({ request, sameOrigin }) => sameOrigin && request.destination === 'script'">>)
Fn_Style ==
    JsFunctionOf(<<"({ request, sameOrigin }) => sameOrigin && request.destination === 'style'">>)
Fn_SameOrigin == JsFunctionOf(<<"({ sameOrigin }) => sameOrigin">>)
Fn_CrossOrigin == JsFunctionOf(<<"({ sameOrigin }) => !sameOrigin">>)

Text(t) == JsString(<<t>>)

CacheableResponse ==
    Prop(Key("cacheableResponse"),
         JsObject(<<Prop(Key("statuses"), JsArray(<<JsNumber(0), JsNumber(200)>>))>>))

Expiration(maxEntries, maxAgeSeconds) ==
    Prop(Key("expiration"),
         JsObject(<<Prop(Key("maxEntries"), JsNumber(maxEntries)),
                    Prop(Key("maxAgeSeconds"), JsNumber(maxAgeSeconds))>>))

\* A rule object: urlPattern, handler, method (left out when undefined), options.
Rule(urlPattern, handler, method, optionProps) ==
    JsObject(KeepProps(<<Prop(Key("urlPattern"), urlPattern),
                         Prop(Key("handler"), Text(handler)),
                         Prop(Key("method"), method),
                         Prop(Key("options"),
                              IF optionProps = <<>> THEN JsUndefined
                              ELSE JsObject(optionProps))>>))

CacheName(name) == Prop(Key("cacheName"), Text(name))
NetworkTimeout(n) == Prop(Key("networkTimeoutSeconds"), JsNumber(n))

getDefaultRuntimeCaching ==
    << Rule(JsString(Pattern_GoogleFontsStylesheets), "StaleWhileRevalidate", JsUndefined,
            <<CacheName("google-fonts-stylesheets")>>),
       Rule(JsString(Pattern_GoogleFontsWebfonts), "CacheFirst", JsUndefined,
            <<CacheName("google-fonts-webfonts"), Expiration(30, YEAR_IN_SECONDS),
              CacheableResponse>>),
       Rule(JsString(Pattern_Cdn), "CacheFirst", JsUndefined,
            <<CacheName("static-assets"), Expiration(100, YEAR_IN_SECONDS),
              CacheableResponse>>),
       Rule(Fn_Image, "CacheFirst", JsUndefined,
            <<CacheName("images"), Expiration(60, 30 * DAY_IN_SECONDS), CacheableResponse>>),
       Rule(Fn_Audio, "CacheFirst", JsUndefined,
            <<CacheName("audio"), Expiration(30, 30 * DAY_IN_SECONDS), CacheableResponse,
              Prop(Key("rangeRequests"), JsTrue)>>),
       Rule(Fn_Video, "CacheFirst", JsUndefined,
            <<CacheName("video"), Expiration(30, 30 * DAY_IN_SECONDS), CacheableResponse,
              Prop(Key("rangeRequests"), JsTrue)>>),
       Rule(Fn_Script, "StaleWhileRevalidate", JsUndefined, <<CacheName("js")>>),
       Rule(Fn_Style, "StaleWhileRevalidate", JsUndefined, <<CacheName("css")>>),
       Rule(JsString(Pattern_Api), "NetworkFirst", Text("GET"),
            <<CacheName("apis"), NetworkTimeout(10), CacheableResponse>>),
       Rule(Fn_SameOrigin, "NetworkFirst", Text("GET"),
            <<CacheName("pages"), NetworkTimeout(10), CacheableResponse>>),
       Rule(Fn_CrossOrigin, "NetworkFirst", Text("GET"),
            <<CacheName("cross-origin"), NetworkTimeout(10), CacheableResponse>>),
       Rule(JsString(Pattern_StaticFiles), "CacheFirst", JsUndefined,
            <<CacheName("static-files"), Expiration(100, YEAR_IN_SECONDS),
              CacheableResponse>>),
       Rule(JsString(Pattern_CatchAll), "NetworkFirst", JsUndefined,
            <<CacheName("others"), NetworkTimeout(10), CacheableResponse>>) >>

-----------------------------------------------------------------------------
(* worker/cache-strategies.ts: normalizeUrlPattern, mergeRuntimeCaching *)

\* String(pattern), for a pattern that is no string, RegExp or function.
StringOf(v) ==
    CASE v.t = "number" -> IntToText(v.n)
      [] v.t = "string" -> v.s
      [] OTHER -> <<v.t>>

\* A RegExp compared by its toString(), slashes and all.
normalizeUrlPattern_RegExpToString(pattern) ==
    CASE pattern.t = "string" -> pattern.s
      [] pattern.t = "regexp" -> RegExpToString(pattern)
      [] pattern.t = "function" -> pattern.s
      [] OTHER -> StringOf(pattern)

normalizeUrlPattern(pattern) ==
    CASE pattern.t = "string" -> pattern.s
      [] pattern.t = "regexp" -> RegExpSource(pattern)
      [] pattern.t = "function" -> pattern.s
      [] OTHER -> StringOf(pattern)

\* The defaults put first.
mergeRuntimeCaching_DefaultsFirst(custom, defaults) ==
    LET customPatterns ==
            {normalizeUrlPattern(Get(custom[i], Key("urlPattern"))) : i \in 1..Len(custom)}
    IN  SelectSeq(defaults,
                  LAMBDA d : normalizeUrlPattern(Get(d, Key("urlPattern"))) \notin customPatterns)
        \o custom

\* The defaults appended unfiltered.
mergeRuntimeCaching_NoFilter(custom, defaults) == custom \o defaults

mergeRuntimeCaching(custom, defaults) ==
    LET customPatterns ==
            {normalizeUrlPattern(Get(custom[i], Key("urlPattern"))) : i \in 1..Len(custom)}
        filteredDefaults ==
            SelectSeq(defaults,
                      LAMBDA d : normalizeUrlPattern(Get(d, Key("urlPattern")))
                                     \notin customPatterns)
    IN  custom \o filteredDefaults

-----------------------------------------------------------------------------
(* First-match-wins evaluation of a rule list (templates/sw.ts registers    *)
(* each rule as a route; the router takes the first route that matches).    *)

\* A request: its method, its URL (scheme, host, path; the host "self" is
\* the service worker's own origin) and its destination.
Href(url) == <<url.scheme, "/", "/", url.host>> \o url.path
SameOrigin(url) == url.host = "self"

Extensions == {"ico", "png", "svg", "txt", "woff", "woff2"}

\* regExp.exec(href).index for the pattern texts of the default rules
\* (1 the start of the text, 0 no match).
RegExpMatchIndex(pattern, href) ==
    CASE pattern = Pattern_GoogleFontsStylesheets ->
            IF StartsWith(href, <<"https:", "/", "/", "fonts.googleapis.com", "/">>) THEN 1 ELSE 0
      [] pattern = Pattern_GoogleFontsWebfonts ->
            IF StartsWith(href, <<"https:", "/", "/", "fonts.gstatic.com", "/">>) THEN 1 ELSE 0
      [] pattern = Pattern_Cdn ->
            IF \E h \in {"cdn.jsdelivr.net", "cdnjs.cloudflare.com", "unpkg.com"} :
                   StartsWith(href, <<"https:", "/", "/", h, "/">>)
            THEN 1 ELSE 0
      [] pattern = Pattern_Api ->
            IF StartsWith(href, <<"/", "api", "/">>) THEN 1 ELSE 0
      [] pattern = Pattern_StaticFiles ->
            IF Len(href) >= 2 /\ href[Len(href) - 1] = "." /\ href[Len(href)] \in Extensions
            THEN Len(href) - 1 ELSE 0
      [] pattern = Pattern_CatchAll -> 1
      [] OTHER -> 0

\* A matcher function called with {url, request, sameOrigin}.
CallMatcher(fn, req) ==
    CASE fn = Fn_Image -> req.destination = "image"
      [] fn = Fn_Audio -> req.destination = "audio"
      [] fn = Fn_Video -> req.destination = "video"
      [] fn = Fn_Script -> SameOrigin(req.url) /\ req.destination = "script"
      [] fn = Fn_Style -> SameOrigin(req.url) /\ req.destination = "style"
      [] fn = Fn_SameOrigin -> SameOrigin(req.url)
      [] fn = Fn_CrossOrigin -> ~SameOrigin(req.url)
      [] OTHER -> FALSE

\* The method a route answers: the rule's, GET when the rule names none.
RouteMethod(rule) ==
    IF Get(rule, Key("method")).t = "undefined" THEN <<"GET">> ELSE Get(rule, Key("method")).s

\* Whether the route of a rule matches a request.  A pattern text is matched
\* against the whole href, and for a cross-origin request only a match at the
\* start of the href counts.
RouteMatches(rule, req) ==
    LET pattern == Get(rule, Key("urlPattern"))
    IN  /\ RouteMethod(rule) = <<req.method>>
        /\ IF pattern.t = "function" THEN CallMatcher(pattern, req)
           ELSE LET at == RegExpMatchIndex(pattern.s, Href(req.url))
                IN  at # 0 /\ (SameOrigin(req.url) \/ at = 1)

\* The index of the first rule that matches, 0 when none does.
FirstMatch(rules, req) ==
    IF \E i \in 1..Len(rules) : RouteMatches(rules[i], req)
    THEN CHOOSE i \in 1..Len(rules) :
             RouteMatches(rules[i], req) /\ \A j \in 1..(i - 1) : ~RouteMatches(rules[j], req)
    ELSE 0

-----------------------------------------------------------------------------
(* JSON.parse (ECMA-404), which reads back what escapeForServiceWorker      *)
(* wrote.  A parse step yields [ok, val, next]: whether it succeeded, the   *)
(* value read and the index after it.                                       *)

ParseFail == [ok |-> FALSE, val |-> JsNull, next |-> 0]
ParseOk(v, next) == [ok |-> TRUE, val |-> v, next |-> next]

IsJsonWhiteSpace(c) == c \in {" ", TAB, NL}
IsDigit(c) == c \in {"0", "1", "2", "3", "4", "5", "6", "7", "8", "9"}
IsHexDigit(c) == IsDigit(c) \/ c \in {"a", "b", "c", "d", "e", "f", "A", "B", "C", "D", "E", "F"}
DigitValue(c) == CHOOSE d \in 0..9 : DigitChar(d) = c
HexUpper(c) ==
    CASE c = "a" -> "A" [] c = "b" -> "B" [] c = "c" -> "C"
      [] c = "d" -> "D" [] c = "e" -> "E" [] c = "f" -> "F" [] OTHER -> c

\* The character a \uXXXX escape names.  The model writes a character that
\* has no one-character token as <U+XXXX>.
UnicodeChar(h1, h2, h3, h4) ==
    "<U+" \o HexUpper(h1) \o HexUpper(h2) \o HexUpper(h3) \o HexUpper(h4) \o ">"

RECURSIVE SkipWhiteSpace(_, _)
SkipWhiteSpace(s, i) ==
    IF i <= Len(s) /\ IsJsonWhiteSpace(s[i]) THEN SkipWhiteSpace(s, i + 1) ELSE i

\* The characters of a string literal from index i (after the opening quote)
\* to its closing quote: [ok, str, next].
RECURSIVE ParseStringBody(_, _)
ParseStringBody(s, i) ==
    IF i > Len(s) THEN [ok |-> FALSE, str |-> <<>>, next |-> 0]
    ELSE IF s[i] = "\"" THEN [ok |-> TRUE, str |-> <<>>, next |-> i + 1]
    ELSE IF s[i] \in {NUL, NL, TAB} THEN [ok |-> FALSE, str |-> <<>>, next |-> 0]
    ELSE IF s[i] = BSL THEN
        IF i + 1 > Len(s) THEN [ok |-> FALSE, str |-> <<>>, next |-> 0]
        ELSE LET e == s[i + 1]
                 simple == CASE e = "\"" -> <<"\"">>
                             [] e = BSL -> <<BSL>>
                             [] e = "/" -> <<"/">>
                             [] e = "n" -> <<NL>>
                             [] e = "t" -> <<TAB>>
                             [] e = "b" -> <<"<U+0008>">>
                             [] e = "f" -> <<"<U+000C>">>
                             [] e = "r" -> <<"<U+000D>">>
                             [] OTHER -> <<>>
             IN  IF simple # <<>> THEN
                     LET rest == ParseStringBody(s, i + 2)
                     IN  [rest EXCEPT !.str = simple \o rest.str]
                 ELSE IF e = "u" /\ i + 5 <= Len(s)
                         /\ \A k \in 2..5 : IsHexDigit(s[i + k]) THEN
                     LET rest == ParseStringBody(s, i + 6)
                         c == UnicodeChar(s[i + 2], s[i + 3], s[i + 4], s[i + 5])
                     IN  [rest EXCEPT !.str = <<c>> \o rest.str]
                 ELSE [ok |-> FALSE, str |-> <<>>, next |-> 0]
    ELSE LET rest == ParseStringBody(s, i + 1)
         IN  [rest EXCEPT !.str = <<s[i]>> \o rest.str]

\* The digits from index i on: [n, next].
RECURSIVE ParseDigits(_, _, _)
ParseDigits(s, i, acc) ==
    IF i <= Len(s) /\ IsDigit(s[i])
    THEN ParseDigits(s, i + 1, acc * 10 + DigitValue(s[i]))
    ELSE [n |-> acc, next |-> i]

RECURSIVE ParseValueAt(_, _)
RECURSIVE ParseItemsAt(_, _)
RECURSIVE ParsePropsAt(_, _)

\* An integer: -? (0 | [1-9][0-9]*)
ParseNumberAt(s, i) ==
    LET neg == s[i] = "-"
        j == IF neg THEN i + 1 ELSE i
    IN  IF j > Len(s) \/ ~IsDigit(s[j]) THEN ParseFail
        ELSE LET d == ParseDigits(s, j, 0)
             IN  IF s[j] = "0" /\ d.next > j + 1 THEN ParseFail
                 ELSE ParseOk(JsNumber(IF neg THEN -d.n ELSE d.n), d.next)

\* The elements of an array, index i after "[" or ",": [ok, val (an array), next].
ParseItemsAt(s, i) ==
    LET one == ParseValueAt(s, i)
    IN  IF ~one.ok THEN ParseFail
        ELSE LET j == SkipWhiteSpace(s, one.next)
             IN  IF j > Len(s) THEN ParseFail
                 ELSE IF s[j] = "]" THEN ParseOk(JsArray(<<one.val>>), j + 1)
                 ELSE IF s[j] = "," THEN
                     LET rest == ParseItemsAt(s, j + 1)
                     IN  IF ~rest.ok THEN ParseFail
                         ELSE ParseOk(JsArray(<<one.val>> \o rest.val.items), rest.next)
                 ELSE ParseFail

\* The properties of an object, index i after "{" or ",".
ParsePropsAt(s, i) ==
    LET k == SkipWhiteSpace(s, i)
    IN  IF k > Len(s) \/ s[k] # "\"" THEN ParseFail
        ELSE LET key == ParseStringBody(s, k + 1)
                 c == IF key.ok THEN SkipWhiteSpace(s, key.next) ELSE 0
             IN  IF ~key.ok \/ c > Len(s) \/ s[c] # ":" THEN ParseFail
                 ELSE LET one == ParseValueAt(s, c + 1)
                          j == IF one.ok THEN SkipWhiteSpace(s, one.next) ELSE 0
                      IN  IF ~one.ok \/ j > Len(s) THEN ParseFail
                          ELSE IF s[j] = "}"
                               THEN ParseOk(JsObject(<<Prop(key.str, one.val)>>), j + 1)
                          ELSE IF s[j] = "," THEN
                              LET rest == ParsePropsAt(s, j + 1)
                              IN  IF ~rest.ok THEN ParseFail
                                  ELSE ParseOk(JsObject(<<Prop(key.str, one.val)>>
                                                        \o rest.val.items), rest.next)
                          ELSE ParseFail

ParseValueAt(s, i0) ==
    LET i == SkipWhiteSpace(s, i0)
    IN  IF i > Len(s) THEN ParseFail
        ELSE IF MatchAt(s, i, Text_null) THEN ParseOk(JsNull, i + 4)
        ELSE IF MatchAt(s, i, Text_true) THEN ParseOk(JsTrue, i + 4)
        ELSE IF MatchAt(s, i, Text_false) THEN ParseOk(JsFalse, i + 5)
        ELSE IF s[i] = "\"" THEN
            LET b == ParseStringBody(s, i + 1)
            IN  IF b.ok THEN ParseOk(JsString(b.str), b.next) ELSE ParseFail
        ELSE IF s[i] = "-" \/ IsDigit(s[i]) THEN ParseNumberAt(s, i)
        ELSE IF s[i] = "[" THEN
            LET j == SkipWhiteSpace(s, i + 1)
            IN  IF j <= Len(s) /\ s[j] = "]" THEN ParseOk(JsArray(<<>>), j + 1)
                ELSE ParseItemsAt(s, i + 1)
        ELSE IF s[i] = "{" THEN
            LET j == SkipWhiteSpace(s, i + 1)
            IN  IF j <= Len(s) /\ s[j] = "}" THEN ParseOk(JsObject(<<>>), j + 1)
                ELSE ParsePropsAt(s, i + 1)
        ELSE ParseFail

\* JSON.parse(text): [ok, val]; ok is FALSE where JSON.parse throws SyntaxError.
JSONparse(text) ==
    LET r == ParseValueAt(text, 1)
    IN  IF r.ok /\ SkipWhiteSpace(text, r.next) = Len(text) + 1
        THEN [ok |-> TRUE, val |-> r.val]
        ELSE [ok |-> FALSE, val |-> JsNull]

-----------------------------------------------------------------------------
(* utils/security.ts: hasPathTraversal *)

\* The characters of a string, one by one.
Chars(str) == [i \in 1..Len(str) |-> SubSeq(str, i, i)]

UpperCaseLetters == Chars("ABCDEFGHIJKLMNOPQRSTUVWXYZ")
LowerCaseLetters == Chars("abcdefghijklmnopqrstuvwxyz")

\* One character under a case-insensitive comparison.
AsciiLower(c) ==
    IF \E i \in 1..26 : UpperCaseLetters[i] = c
    THEN LowerCaseLetters[CHOOSE i \in 1..26 : UpperCaseLetters[i] = c]
    ELSE c

AsciiLowerText(s) == [i \in 1..Len(s) |-> AsciiLower(s[i])]

\* The traversal patterns without the /i flag, and those with it.
TraversalPatterns == {Chars(".."), <<".", ".", BSL>>}
TraversalPatternsIgnoreCase ==
    {Chars("%2e%2e"), Chars("%252e%252e"), Chars(".%2e"), Chars("%2e.")}

\* Only the plain ".." is looked for.
hasPathTraversal_PlainOnly(input) ==
    input.type = "string" /\ Includes(input.str, Chars(".."))

hasPathTraversal(input) ==
    IF input.type # "string" THEN FALSE
    ELSE \/ \E t \in TraversalPatterns : Includes(input.str, t)
         \/ \E t \in TraversalPatternsIgnoreCase : Includes(AsciiLowerText(input.str), t)

-----------------------------------------------------------------------------
(* adapter/manifest-generator.ts: paths (node:path join) *)

\* The segments of a path between its "/" separators, from index i on, the
\* segment collected so far being cur.
RECURSIVE SegmentsFrom(_, _, _)
SegmentsFrom(p, i, cur) ==
    IF i > Len(p) THEN <<cur>>
    ELSE IF p[i] = "/" THEN <<cur>> \o SegmentsFrom(p, i + 1, <<>>)
    ELSE SegmentsFrom(p, i + 1, Append(cur, p[i]))

\* path.normalize on the segments: "" and "." dropped, ".." taking back the
\* segment before it (kept when a relative path has nothing to take back).
RECURSIVE ResolveSegments(_, _, _)
ResolveSegments(segs, kept, absolute) ==
    IF segs = <<>> THEN kept
    ELSE LET seg == Head(segs)
             rest == Tail(segs)
         IN  IF seg = <<>> \/ seg = <<".">> THEN ResolveSegments(rest, kept, absolute)
             ELSE IF seg = <<".", ".">>
                  THEN IF kept # <<>> /\ kept[Len(kept)] # <<".", ".">>
                       THEN ResolveSegments(rest, SubSeq(kept, 1, Len(kept) - 1), absolute)
                       ELSE IF absolute THEN ResolveSegments(rest, kept, absolute)
                       ELSE ResolveSegments(rest, Append(kept, seg), absolute)
             ELSE ResolveSegments(rest, Append(kept, seg), absolute)

RECURSIVE JoinSegments(_)
JoinSegments(segs) ==
    IF segs = <<>> THEN <<>>
    ELSE IF Len(segs) = 1 THEN Head(segs)
    ELSE Head(segs) \o <<"/">> \o JoinSegments(Tail(segs))

\* path.normalize(p) on a POSIX system.
Normalize(p) ==
    IF p = <<>> THEN <<".">>
    ELSE LET absolute == p[1] = "/"
             trailing == p[Len(p)] = "/"
             body == JoinSegments(ResolveSegments(SegmentsFrom(p, 1, <<>>), <<>>, absolute))
         IN  IF body = <<>> THEN (IF absolute THEN <<"/">> ELSE IF trailing THEN Chars("./") ELSE <<".">>)
             ELSE (IF absolute THEN <<"/">> ELSE <<>>) \o body
                      \o (IF trailing THEN <<"/">> ELSE <<>>)

\* join(a): one argument, normalized.
Join1(a) == Normalize(a)

\* join(a, b): the non-empty arguments put together with "/", normalized.
Join2(a, b) ==
    IF a = <<>> THEN Normalize(b)
    ELSE IF b = <<>> THEN Normalize(a)
    ELSE Normalize(a \o <<"/">> \o b)

\* Containment by path segments: the root itself or a path below it.
isPathWithinProject_BySegments(filePath, projectRoot) ==
    LET normalizedPath == Join1(filePath)
        normalizedRoot == Join1(projectRoot)
    IN  \/ normalizedPath = normalizedRoot
        \/ StartsWith(normalizedPath,
                      IF EndsWith(normalizedRoot, <<"/">>) THEN normalizedRoot
                      ELSE normalizedRoot \o <<"/">>)

\* Every path accepted.
isPathWithinProject_Always(filePath, projectRoot) == TRUE

isPathWithinProject(filePath, projectRoot) ==
    LET normalizedPath == Join1(filePath)
        normalizedRoot == Join1(projectRoot)
    IN  StartsWith(normalizedPath, normalizedRoot)

-----------------------------------------------------------------------------
(* adapter/manifest-generator.ts: the helpers of generatePrecacheManifest *)

\* A revision: null, the first 8 hex characters of the MD5 digest of some
\* bytes (.digest("hex").slice(0, 8)), or a text the caller supplied.  The
\* digest is kept as the bytes it was taken of: the bytes of a file, named
\* by the file's path, or the decimal text of a clock reading.
RevisionNull == [kind |-> "null", src |-> "none", val |-> <<>>]
RevisionText(text) == [kind |-> "text", src |-> "caller", val |-> text]
FileBytes(filePath) == [src |-> "file", val |-> filePath]
TimeBytes(now) == [src |-> "time", val |-> NatToText(now)]
UrlBytes(url) == [src |-> "url", val |-> url]
Md5Hex8(bytes) == [kind |-> "md5hex8", src |-> bytes.src, val |-> bytes.val]

\* The revision taken of the url whatever the file holds.
generateRevisionHash_FromPath(fs, filePath, now) == Md5Hex8(UrlBytes(filePath))

\* A failed read leaves the entry without a revision.
generateRevisionHash_NoFallback(fs, filePath, now) ==
    IF filePath \notin fs.unreadable
    THEN Md5Hex8(FileBytes(filePath))
    ELSE RevisionNull

\* readFile, then the digest of the content; on a failed read the digest of
\* Date.now().toString().
generateRevisionHash(fs, filePath, now) ==
    IF filePath \notin fs.unreadable
    THEN Md5Hex8(FileBytes(filePath))
    ELSE Md5Hex8(TimeBytes(now))

\* The string pattern turned into the regular expression ^...$ with "*" for
\* any text, "?" for any one character and every other character literal.
RECURSIVE GlobMatches(_, _)
GlobMatches(pattern, value) ==
    IF pattern = <<>> THEN value = <<>>
    ELSE IF Head(pattern) = "*"
         THEN \E k \in 0..Len(value) :
                  GlobMatches(Tail(pattern), SubSeq(value, k + 1, Len(value)))
    ELSE IF Head(pattern) = "?"
         THEN value # <<>> /\ GlobMatches(Tail(pattern), Tail(value))
    ELSE value # <<>> /\ Head(value) = Head(pattern)
             /\ GlobMatches(Tail(pattern), Tail(value))

\* patterns.some(...), the patterns being strings.
matchesExclusion(value, patterns) ==
    \E i \in 1..Len(patterns) : GlobMatches(patterns[i], value)

\* The loop without its break: every entry is tried on what the entries
\* before it made of the url.
RECURSIVE applyURLPrefixModifications_NoBreak(_, _)
applyURLPrefixModifications_NoBreak(url, modifyURLPrefix) ==
    IF modifyURLPrefix = <<>> THEN url
    ELSE LET originalPrefix == Head(modifyURLPrefix).from
             newPrefix == Head(modifyURLPrefix).to
         IN  applyURLPrefixModifications_NoBreak(
                 IF StartsWith(url, originalPrefix)
                 THEN newPrefix \o SubSeq(url, Len(originalPrefix) + 1, Len(url))
                 ELSE url,
                 Tail(modifyURLPrefix))

\* modifyURLPrefix: the [from, to] pairs in the order Object.entries gives
\* them; the first prefix that matches is replaced, and only that one.
RECURSIVE applyURLPrefixModifications(_, _)
applyURLPrefixModifications(url, modifyURLPrefix) ==
    IF modifyURLPrefix = <<>> THEN url
    ELSE LET originalPrefix == Head(modifyURLPrefix).from
             newPrefix == Head(modifyURLPrefix).to
         IN  IF StartsWith(url, originalPrefix)
             THEN newPrefix \o SubSeq(url, Len(originalPrefix) + 1, Len(url))
             ELSE applyURLPrefixModifications(url, Tail(modifyURLPrefix))

\* The elements of a list in the order of their first occurrence (the
\* iteration order of a Set built from the list).
RECURSIVE InsertionOrder(_, _)
InsertionOrder(items, seen) ==
    IF items = <<>> THEN <<>>
    ELSE IF Head(items) \in seen THEN InsertionOrder(Tail(items), seen)
    ELSE <<Head(items)>> \o InsertionOrder(Tail(items), seen \cup {Head(items)})

\* Object.values(manifest.pages), each page's files one after the other.
RECURSIVE PageAssets(_)
PageAssets(pages) == IF pages = <<>> THEN <<>> ELSE Head(pages) \o PageAssets(Tail(pages))

extractAssetsFromManifest(manifest) ==
    InsertionOrder(manifest.polyfillFiles \o manifest.rootMainFiles
                       \o manifest.lowPriorityFiles \o PageAssets(manifest.pages), {})

IsLowerHexDigit(c) == IsDigit(c) \/ c \in {"a", "b", "c", "d", "e", "f"}

HashedExtensions ==
    { Chars(e) : e \in {"js", "css", "woff", "woff2", "ttf", "eot", "svg", "png", "jpg",
                        "jpeg", "gif", "webp", "avif"} }

\* /\.[a-f0-9]{8,}\.(js|css|...)$/i
MatchesHashPattern(url) ==
    \E i, j \in 1..Len(url) :
        /\ url[i] = "." /\ url[j] = "."
        /\ j - i - 1 >= 8
        /\ \A k \in (i + 1)..(j - 1) : IsHexDigit(url[k])
        /\ AsciiLowerText(SubSeq(url, j + 1, Len(url))) \in HashedExtensions

\* /[a-f0-9]{8,}-/
MatchesChunkHashPattern(url) ==
    \E j \in 9..Len(url) :
        url[j] = "-" /\ \A k \in (j - 8)..(j - 1) : IsLowerHexDigit(url[k])

\* Every file given a revision.
needsRevision_Always(url) == TRUE

needsRevision(url) ==
    IF MatchesHashPattern(url) THEN FALSE
    ELSE IF MatchesChunkHashPattern(url) THEN FALSE
    ELSE TRUE

-----------------------------------------------------------------------------
(* adapter/manifest-generator.ts: generatePrecacheManifest                  *)
(*                                                                          *)
(* The filesystem fs is what the function can observe of it:                *)
(*   manifest   [state, json]: build-manifest.json "missing", "unparsable"  *)
(*              or "ok" with its parsed content;                            *)
(*   static     [state, files]: the static subtree "missing", its listing   *)
(*              failing ("fails"), or "ok" with the files globby lists, in  *)
(*              globby's order, relative to the subtree;                    *)
(*   public     the same for the public directory;                          *)
(*   unreadable the paths readFile fails on.                                *)
(* now is what Date.now() returns during the call.                          *)

\* readBuildManifest: null when the file cannot be read or parsed.
readBuildManifest(fs, buildDir) ==
    [ok |-> fs.manifest.state = "ok", json |-> fs.manifest.json,
     path |-> Join2(buildDir, Chars("build-manifest.json"))]

NotTraversal(file) == ~hasPathTraversal(TextValue(file))

\* getStaticBuildFiles: [] when the subtree is missing or cannot be listed.
getStaticBuildFiles(fs, buildDir, projectRoot) ==
    IF fs.static.state # "ok" THEN <<>>
    ELSE SelectSeq([i \in 1..Len(fs.static.files) |->
                        Chars("/_next/static/") \o fs.static.files[i]],
                   NotTraversal)

\* globby's ignore option, for patterns that name one file each.
Ignored(file, excludePatterns) ==
    \E i \in 1..Len(excludePatterns) : excludePatterns[i] = file

\* getPublicFiles: [] when the directory is missing, outside the project or
\* cannot be listed.
getPublicFiles(fs, publicDir, projectRoot, excludePatterns) ==
    IF fs.public.state = "missing" THEN <<>>
    ELSE IF ~isPathWithinProject(publicDir, projectRoot) THEN <<>>
    ELSE IF fs.public.state # "ok" THEN <<>>
    ELSE LET listed == SelectSeq(fs.public.files, LAMBDA f : ~Ignored(f, excludePatterns))
         IN  SelectSeq([i \in 1..Len(listed) |-> <<"/">> \o listed[i]], NotTraversal)

\* An entry of the manifest.  from names the loop that pushed it ("build",
\* "public", "extra") and of the candidate it was made of; the program keeps
\* neither.
Entry(url, revision, from, of) == [url |-> url, revision |-> revision, from |-> from, of |-> of]

\* The entries pushed so far, the urls seen so far, the paths handed to
\* readFile so far.
Progress(entries, seenUrls, reads) == [entries |-> entries, seenUrls |-> seenUrls, reads |-> reads]

WithBasePath(basePath, url) ==
    IF basePath # <<>> /\ basePath # <<"/">> THEN basePath \o url ELSE url

\* asset.replace(/^\/_next\//, "")
WithoutNextPrefix(asset) ==
    IF StartsWith(asset, Chars("/_next/")) THEN SubSeq(asset, 8, Len(asset)) ELSE asset

\* The turn over a build asset with entries.unshift for entries.push.
ProcessBuildAsset_Unshift(asset, acc, options, fs, now) ==
    LET sanitizedAsset == sanitizePath(TextValue(asset))
        url == applyURLPrefixModifications(
                   WithBasePath(options.basePath,
                                IF StartsWith(asset, <<"/">>) THEN asset ELSE <<"/">> \o asset),
                   options.modifyURLPrefix)
        filePath == Join2(options.buildDir, WithoutNextPrefix(asset))
        revision ==
            IF needsRevision(url) THEN generateRevisionHash(fs, filePath, now) ELSE RevisionNull
    IN  IF sanitizedAsset = <<>> /\ asset # <<>> THEN acc
        ELSE IF matchesExclusion(asset, options.buildExcludes) THEN acc
        ELSE IF url \in acc.seenUrls THEN acc
        ELSE Progress(<<Entry(url, revision, "build", asset)>> \o acc.entries,
                      acc.seenUrls \cup {url},
                      IF needsRevision(url) THEN Append(acc.reads, filePath) ELSE acc.reads)

\* One turn of the loop over the build assets.
ProcessBuildAsset(asset, acc, options, fs, now) ==
    LET sanitizedAsset == sanitizePath(TextValue(asset))
        url == applyURLPrefixModifications(
                   WithBasePath(options.basePath,
                                IF StartsWith(asset, <<"/">>) THEN asset ELSE <<"/">> \o asset),
                   options.modifyURLPrefix)
        filePath == Join2(options.buildDir, WithoutNextPrefix(asset))
    IN  IF sanitizedAsset = <<>> /\ asset # <<>> THEN acc
        ELSE IF matchesExclusion(asset, options.buildExcludes) THEN acc
        ELSE IF url \in acc.seenUrls THEN acc
        ELSE IF needsRevision(url)
             THEN Progress(Append(acc.entries,
                                  Entry(url, generateRevisionHash(fs, filePath, now),
                                        "build", asset)),
                           acc.seenUrls \cup {url}, Append(acc.reads, filePath))
        ELSE Progress(Append(acc.entries, Entry(url, RevisionNull, "build", asset)),
                      acc.seenUrls \cup {url}, acc.reads)

\* The turn over a public file without the look into seenUrls.
ProcessPublicFile_NoSeenCheck(file, acc, options, fs, now) ==
    LET url == applyURLPrefixModifications(WithBasePath(options.basePath, file),
                                           options.modifyURLPrefix)
        filePath == Join2(options.publicDir, Tail(file))
    IN  Progress(Append(acc.entries,
                        Entry(url, generateRevisionHash(fs, filePath, now), "public", file)),
                 acc.seenUrls \cup {url}, Append(acc.reads, filePath))

\* One turn of the loop over the public files.
ProcessPublicFile(file, acc, options, fs, now) ==
    LET url == applyURLPrefixModifications(WithBasePath(options.basePath, file),
                                           options.modifyURLPrefix)
        filePath == Join2(options.publicDir, Tail(file))
    IN  IF url \in acc.seenUrls THEN acc
        ELSE Progress(Append(acc.entries,
                             Entry(url, generateRevisionHash(fs, filePath, now), "public", file)),
                      acc.seenUrls \cup {url}, Append(acc.reads, filePath))

\* One turn of the loop over the additional entries; an entry is
\* [url, revision], its url a JavaScript value.
ProcessAdditionalEntry(entry, acc, options, fs, now) ==
    IF entry.url.type # "string" \/ entry.url.str = <<>> THEN acc
    ELSE IF hasPathTraversal(entry.url) THEN acc
    ELSE LET url == applyURLPrefixModifications(
                        IF StartsWith(entry.url.str, <<"/">>)
                        THEN WithBasePath(options.basePath, entry.url.str)
                        ELSE entry.url.str,
                        options.modifyURLPrefix)
         IN  IF url \in acc.seenUrls THEN acc
             ELSE Progress(Append(acc.entries, Entry(url, entry.revision, "extra", entry.url.str)),
                           acc.seenUrls \cup {url}, acc.reads)

\* for (const asset of allBuildAssets) { ... }
RECURSIVE ProcessBuildAssets(_, _, _, _, _)
ProcessBuildAssets(assets, acc, options, fs, now) ==
    IF assets = <<>> THEN acc
    ELSE ProcessBuildAssets(Tail(assets), ProcessBuildAsset(Head(assets), acc, options, fs, now),
                            options, fs, now)

\* for (const file of publicFiles) { ... }
RECURSIVE ProcessPublicFiles(_, _, _, _, _)
ProcessPublicFiles(files, acc, options, fs, now) ==
    IF files = <<>> THEN acc
    ELSE ProcessPublicFiles(Tail(files), ProcessPublicFile(Head(files), acc, options, fs, now),
                            options, fs, now)

\* for (const entry of additionalManifestEntries) { ... }
RECURSIVE ProcessAdditionalEntries(_, _, _, _, _)
ProcessAdditionalEntries(extra, acc, options, fs, now) ==
    IF extra = <<>> THEN acc
    ELSE ProcessAdditionalEntries(Tail(extra),
                                  ProcessAdditionalEntry(Head(extra), acc, options, fs, now),
                                  options, fs, now)

ManifestThrew(error) ==
    [done |-> TRUE, threw |-> TRUE, error |-> error, entries |-> <<>>, reads |-> <<>>]
ManifestReturned(acc) ==
    [done |-> TRUE, threw |-> FALSE, error |-> "", entries |-> acc.entries, reads |-> acc.reads]
ManifestNotRun ==
    [done |-> FALSE, threw |-> FALSE, error |-> "", entries |-> <<>>, reads |-> <<>>]

generatePrecacheManifest(options, fs, now) ==
    IF ~isPathWithinProject(options.buildDir, options.projectRoot)
    THEN ManifestThrew("Build directory is outside project root - security violation")
    ELSE IF ~isPathWithinProject(options.publicDir, options.projectRoot)
    THEN ManifestThrew("Public directory is outside project root - security violation")
    ELSE
    LET buildManifest == readBuildManifest(fs, options.buildDir)
        manifestAssets ==
            IF buildManifest.ok THEN extractAssetsFromManifest(buildManifest.json) ELSE <<>>
        staticFiles == getStaticBuildFiles(fs, options.buildDir, options.projectRoot)
        allBuildAssets == InsertionOrder(manifestAssets \o staticFiles, {})
        afterBuild ==
            ProcessBuildAssets(allBuildAssets, Progress(<<>>, {}, <<buildManifest.path>>),
                               options, fs, now)
        publicFiles ==
            getPublicFiles(fs, options.publicDir, options.projectRoot, options.publicExcludes)
        afterPublic == ProcessPublicFiles(publicFiles, afterBuild, options, fs, now)
        afterExtra ==
            ProcessAdditionalEntries(options.additionalManifestEntries, afterPublic,
                                     options, fs, now)
    IN  ManifestReturned(afterExtra)

-----------------------------------------------------------------------------
(* adapter/manifest-generator.ts: writePWAManifest, readPWAManifest         *)
(*                                                                          *)
(* disk is the file the path names: state "missing" or "file", text its     *)
(* content, writable whether writeFile succeeds on it.                      *)

RECURSIVE StringifyIndented(_, _)
RECURSIVE IndentedItems(_, _, _)
RECURSIVE IndentedProps(_, _, _)

\* The elements of an array from index i on, one per line.
IndentedItems(items, i, indent) ==
    IF i > Len(items) THEN <<>>
    ELSE indent \o StringifyIndented(items[i], indent)
             \o (IF i < Len(items) THEN <<",">> ELSE <<>>) \o <<NL>>
             \o IndentedItems(items, i + 1, indent)

\* The properties of an object from index i on, one per line.
IndentedProps(props, i, indent) ==
    IF i > Len(props) THEN <<>>
    ELSE indent \o QuoteJSONString(props[i].key) \o <<":", " ">>
             \o StringifyIndented(props[i].val, indent)
             \o (IF i < Len(props) THEN <<",">> ELSE <<>>) \o <<NL>>
             \o IndentedProps(props, i + 1, indent)

\* JSON.stringify(value, null, 2) of strings, null, arrays and objects;
\* indent is the indentation of the line the value starts on.
StringifyIndented(v, indent) ==
    IF v.t = "array" /\ v.items # <<>>
    THEN <<"[", NL>> \o IndentedItems(v.items, 1, indent \o <<" ", " ">>) \o indent \o <<"]">>
    ELSE IF v.t = "object" /\ v.items # <<>>
    THEN <<"{", NL>> \o IndentedProps(v.items, 1, indent \o <<" ", " ">>) \o indent \o <<"}">>
    ELSE JSONstringify(v).str

PwaOutcome(threw, error, touched, found, val) ==
    [done |-> TRUE, threw |-> threw, error |-> error, touched |-> touched,
     found |-> found, val |-> val]
PwaNotCalled ==
    [done |-> FALSE, threw |-> FALSE, error |-> "", touched |-> FALSE,
     found |-> FALSE, val |-> JsNull]

\* writePWAManifest: [outcome, disk], the disk after the call.
writePWAManifest(manifest, outputPath, projectRoot, disk) ==
    IF ~isPathWithinProject(outputPath, projectRoot)
    THEN [outcome |-> PwaOutcome(TRUE, "Output path is outside project root - security violation",
                                 FALSE, FALSE, JsNull),
          disk |-> disk]
    ELSE IF hasPathTraversal(TextValue(outputPath))
    THEN [outcome |-> PwaOutcome(TRUE, "Output path contains path traversal - security violation",
                                 FALSE, FALSE, JsNull),
          disk |-> disk]
    ELSE IF ~disk.writable
    THEN [outcome |-> PwaOutcome(TRUE, "Failed to write PWA manifest", TRUE, FALSE, JsNull),
          disk |-> disk]
    ELSE [outcome |-> PwaOutcome(FALSE, "", TRUE, FALSE, JsNull),
          disk |-> [disk EXCEPT !.state = "file",
                                !.text = StringifyIndented(manifest, <<>>)]]

\* readPWAManifest: found tells a parsed value from the null of a missing
\* or invalid file.
readPWAManifest(manifestPath, projectRoot, disk) ==
    IF ~isPathWithinProject(manifestPath, projectRoot)
    THEN PwaOutcome(TRUE, "Manifest path is outside project root - security violation",
                    FALSE, FALSE, JsNull)
    ELSE IF disk.state = "missing" THEN PwaOutcome(FALSE, "", TRUE, FALSE, JsNull)
    ELSE LET parsed == JSONparse(disk.text)
         IN  IF parsed.ok THEN PwaOutcome(FALSE, "", TRUE, TRUE, parsed.val)
             ELSE PwaOutcome(FALSE, "", TRUE, FALSE, JsNull)

-----------------------------------------------------------------------------
(* utils/security.ts: validateScope *)

\* A path with "/" added when it does not end with one.
WithTrailingSlash(path) == IF EndsWith(path, <<"/">>) THEN path ELSE path \o <<"/">>

\* The scope compared with basePath as they are given.
validateScope_NoTrailingSlash(scope, basePath) ==
    IF scope.type # "string" THEN FALSE
    ELSE IF Len(scope.str) = 0 THEN FALSE
    ELSE IF ~StartsWith(scope.str, <<"/">>) THEN FALSE
    ELSE IF Includes(scope.str, <<".", ".">>) THEN FALSE
    ELSE IF Includes(scope.str, <<NUL>>) THEN FALSE
    ELSE IF Includes(scope.str, <<"?">>) THEN FALSE
    ELSE IF Includes(scope.str, <<"#">>) THEN FALSE
    ELSE IF Includes(scope.str, <<BSL>>) THEN FALSE
    ELSE IF basePath.type # "undefined"
         THEN IF basePath.type # "string" THEN FALSE
              ELSE StartsWith(scope.str, basePath.str)
    ELSE TRUE

\* scope and basePath are JavaScript values, [type, str].
validateScope(scope, basePath) ==
    IF scope.type # "string" THEN FALSE
    ELSE IF Len(scope.str) = 0 THEN FALSE
    ELSE IF ~StartsWith(scope.str, <<"/">>) THEN FALSE
    ELSE IF Includes(scope.str, <<".", ".">>) THEN FALSE
    ELSE IF Includes(scope.str, <<NUL>>) THEN FALSE
    ELSE IF Includes(scope.str, <<"?">>) THEN FALSE
    ELSE IF Includes(scope.str, <<"#">>) THEN FALSE
    ELSE IF Includes(scope.str, <<BSL>>) THEN FALSE
    ELSE IF basePath.type # "undefined"
         THEN IF basePath.type # "string" THEN FALSE
              ELSE LET normalizedBase == WithTrailingSlash(basePath.str)
                       normalizedScope == WithTrailingSlash(scope.str)
                   IN  StartsWith(normalizedScope, normalizedBase)
    ELSE TRUE

-----------------------------------------------------------------------------
(* worker/cache-strategies.ts: a call of getDefaultRuntimeCaching and what  *)
(* its caller can do to the objects it gets.  The heap is a sequence of     *)
(* objects, the address of an object being its index: an array holds the    *)
(* addresses of its elements, a rule object holds its properties.           *)

ListObject(items) == [kind |-> "list", items |-> items, rule |-> JsNull]
RuleObject(rule) == [kind |-> "rule", items |-> <<>>, rule |-> rule]

\* The rules an array holds, read through the heap.
ReadList(heap, list) ==
    [i \in 1..Len(heap[list].items) |-> heap[heap[list].items[i]].rule]

\* The array literal evaluated once and kept: every call after the first
\* returns the array of the first.
ReturnDefaults_Memoized(heap) ==
    IF heap # <<>> THEN [heap |-> heap, list |-> Len(getDefaultRuntimeCaching) + 1]
    ELSE [heap |-> [i \in 1..Len(getDefaultRuntimeCaching) |->
                       RuleObject(getDefaultRuntimeCaching[i])]
                   \o <<ListObject([i \in 1..Len(getDefaultRuntimeCaching) |-> i])>>,
          list |-> Len(getDefaultRuntimeCaching) + 1]

\* return [ {...}, ..., {...} ]: the literal evaluated at the call, one new
\* object per rule and one new array; [heap, list], list the array's address.
ReturnDefaults(heap) ==
    LET rules == getDefaultRuntimeCaching
        base == Len(heap)
    IN  [heap |-> heap \o [i \in 1..Len(rules) |-> RuleObject(rules[i])]
                       \o <<ListObject([i \in 1..Len(rules) |-> base + i])>>,
         list |-> base + Len(rules) + 1]

\* obj[key] = val on an object that has the property.
SetProp(obj, key, val) ==
    [obj EXCEPT !.items = [j \in 1..Len(obj.items) |->
                              IF obj.items[j].key = key THEN Prop(key, val) ELSE obj.items[j]]]

\* What a caller does to a rule it was given.
MutatedRule(rule, op) ==
    IF op = "handler" THEN SetProp(rule, Key("handler"), Text("NetworkOnly"))
    ELSE SetProp(rule, Key("options"),
                 SetProp(Get(rule, Key("options")), Key("cacheName"), Text("mine")))

\* What a caller does to a list it was given.
MutatedItems(items, op) ==
    IF items = <<>> THEN items
    ELSE IF op = "pop" THEN SubSeq(items, 1, Len(items) - 1)
    ELSE IF op = "shift" THEN Tail(items)
    ELSE Append(items, Head(items))

-----------------------------------------------------------------------------
(* templates/sw.ts and worker/offline-fallback.ts: offline fallbacks.  A    *)
(* fallback table maps each category to a URL, "" where the property is     *)
(* undefined or empty (both falsy).                                         *)

FALLBACK_CACHE_NAME == "offline-fallbacks"

\* The order in which the handlers and the install listener go through the
\* categories.
FallbackOrder == <<"document", "image", "font", "audio", "video">>

\* The condition of each branch of the catch handler.
Belongs(req, category) ==
    IF category = "document"
    THEN req.mode = "navigate" \/ req.destination = "document"
    ELSE req.destination = category

ServedFallback(category, url) == [kind |-> "fallback", category |-> category, url |-> url]
ResponseError == [kind |-> "error", category |-> "", url |-> ""]
HandlerThrew == [kind |-> "threw", category |-> "", url |-> ""]

\* The branches from the i-th on.  cached: the URLs caches.match finds (in
\* any cache); failing: the URLs for which caches.match rejects; guarded:
\* whether the lookup is inside try/catch.
RECURSIVE FallbackBranches(_, _, _, _, _, _)
FallbackBranches(table, req, cached, failing, guarded, i) ==
    IF i > Len(FallbackOrder) THEN ResponseError
    ELSE LET category == FallbackOrder[i]
             url == table[category]
             rest == FallbackBranches(table, req, cached, failing, guarded, i + 1)
         IN  IF ~Belongs(req, category) \/ url = "" THEN rest
             ELSE IF url \in failing THEN (IF guarded THEN rest ELSE HandlerThrew)
             ELSE IF url \in cached THEN ServedFallback(category, url)
             ELSE rest

\* templates/sw.ts: the handler given to setCatchHandler; each lookup goes
\* through tryServeFallback, which catches a rejected caches.match.
catchHandler(table, req, cached, failing) ==
    FallbackBranches(table, req, cached, failing, TRUE, 1)

\* offline-fallback.ts: the handler generateCatchHandlerCode writes; one
\* branch per configured category, awaiting caches.match directly.
generatedCatchHandler(table, req, cached, failing) ==
    FallbackBranches(table, req, cached, failing, FALSE, 1)

\* The install listener's fallbackUrls: the configured URLs in category order.
RECURSIVE FallbackUrlsFrom(_, _)
FallbackUrlsFrom(table, i) ==
    IF i > Len(FallbackOrder) THEN <<>>
    ELSE (IF table[FallbackOrder[i]] = "" THEN <<>> ELSE <<table[FallbackOrder[i]]>>)
         \o FallbackUrlsFrom(table, i + 1)

fallbackUrls(table) == FallbackUrlsFrom(table, 1)

\* cache.add(url) puts the response whatever became of the fetch.
CacheAfterAdd_Always(cache, url, ok) == cache \cup {url}

\* cache.add(url): the response is put in the cache when the fetch succeeded
\* with an ok status; otherwise the promise rejects and nothing is put.
CacheAfterAdd(cache, url, ok) == IF ok THEN cache \cup {url} ELSE cache

-----------------------------------------------------------------------------
(* react/index.ts: useOnlineStatus.  A state update is what setStatus was   *)
(* given: the updater of handleOnline, the object of handleOffline, or the  *)
(* updater of the effect's sync with navigator.onLine.                      *)

OnlineStatus(isOnline, wasOffline) == [isOnline |-> isOnline, wasOffline |-> wasOffline]

StatusUpdate(kind, onLine) == [kind |-> kind, onLine |-> onLine]

\* handleOnline written as setStatus({ isOnline: true, wasOffline: false }).
ApplyUpdate_OnlineResets(prev, update) ==
    CASE update.kind = "online" -> OnlineStatus(TRUE, FALSE)
      [] update.kind = "offline" -> OnlineStatus(FALSE, TRUE)
      [] OTHER -> [prev EXCEPT !.isOnline = update.onLine]

\* The next state from the previous one and one update.
ApplyUpdate(prev, update) ==
    CASE update.kind = "online" -> [prev EXCEPT !.isOnline = TRUE]
      [] update.kind = "offline" -> OnlineStatus(FALSE, TRUE)
      [] OTHER -> [prev EXCEPT !.isOnline = update.onLine]

\* React applies the queued updates in the order of the setStatus calls.
RECURSIVE ApplyUpdates(_, _)
ApplyUpdates(prev, queue) ==
    IF queue = <<>> THEN prev
    ELSE ApplyUpdates(ApplyUpdate(prev, Head(queue)), Tail(queue))

-----------------------------------------------------------------------------
(* adapter/build-adapter.ts: the hooks of createPWABuildAdapter.  A hook's  *)
(* result is [settled, error, logs, disk]: how its promise settled, the     *)
(* message of the error it rejected with, what it logged, and the output    *)
(* file afterwards.                                                         *)

Logged(level, about) == [level |-> level, about |-> about]

HookResult(settled, error, logs, disk) ==
    [settled |-> settled, error |-> error, logs |-> logs, disk |-> disk]

resolvePaths(context) ==
    [buildDir |-> context.outputDir,
     publicDir |-> Join2(context.projectDir, Chars("public")),
     outputPath |-> Join2(context.outputDir, Chars("pwa-manifest.json"))]

\* A string entry becomes {url, revision: null}; an object keeps its two fields.
normalizeAdditionalEntries(entries) ==
    [i \in 1..Len(entries) |->
        IF entries[i].isString THEN [url |-> entries[i].url, revision |-> RevisionNull]
        ELSE [url |-> entries[i].url, revision |-> entries[i].revision]]

\* The generatorOptions both hooks build (no base path, excludes or rewrites
\* configured).
GeneratorOptionsOf(config, context) ==
    [buildDir |-> resolvePaths(context).buildDir,
     publicDir |-> resolvePaths(context).publicDir,
     basePath |-> <<>>,
     publicExcludes |-> <<>>,
     buildExcludes |-> <<>>,
     additionalManifestEntries |-> normalizeAdditionalEntries(config.additionalManifestEntries),
     modifyURLPrefix |-> <<>>,
     projectRoot |-> context.projectDir]

\* The generated entries as the value handed to writePWAManifest; the digest
\* of a revision is written as the name of what was hashed.
ManifestAsJs(entries) ==
    JsArray([i \in 1..Len(entries) |->
        JsObject(<<Prop(Key("url"), JsString(entries[i].url)),
                   Prop(Key("revision"),
                        CASE entries[i].revision.kind = "null" -> JsNull
                          [] entries[i].revision.kind = "text" -> JsString(entries[i].revision.val)
                          [] OTHER -> JsString(Chars("md5:") \o entries[i].revision.val))>>)])

DevEnabled(config) == config.devOptions.defined /\ config.devOptions.enabled

\* The end of the try block: the outcome of writePWAManifest.
AfterWrite(written) ==
    [threw |-> written.outcome.threw, error |-> written.outcome.error, disk |-> written.disk]

\* The try block after generatePrecacheManifest settled.
AfterGenerate(generated, context, disk) ==
    IF generated.threw THEN [threw |-> TRUE, error |-> generated.error, disk |-> disk]
    ELSE AfterWrite(writePWAManifest(ManifestAsJs(generated.entries),
                                     resolvePaths(context).outputPath, context.projectDir, disk))

\* The try block of both hooks: generate, then write.  [threw, error, disk].
GenerateAndWrite(config, context, fs, disk, now) ==
    AfterGenerate(generatePrecacheManifest(GeneratorOptionsOf(config, context), fs, now),
                  context, disk)

\* onBuildComplete's logging around the try block, and its catch block.
BuildOutcome(run) ==
    IF run.threw
    THEN HookResult("rejected", run.error,
                    <<Logged("info", "Processing build outputs for PWA..."),
                      Logged("error", run.error)>>, run.disk)
    ELSE HookResult("resolved", "",
                    <<Logged("info", "Processing build outputs for PWA..."),
                      Logged("info", "PWA build complete")>>, run.disk)

onBuildComplete(config, context, fs, disk, now) ==
    IF config.disable
    THEN HookResult("resolved", "", <<Logged("info", "PWA is disabled, skipping manifest generation")>>, disk)
    ELSE IF ~context.isProduction /\ ~DevEnabled(config)
    THEN HookResult("resolved", "", <<Logged("info", "Skipping PWA manifest in development mode")>>, disk)
    ELSE BuildOutcome(GenerateAndWrite(config, context, fs, disk, now))

\* The catch block of onBuildComplete in onHotReload.
HotReloadOutcome_Rethrows(run) ==
    IF run.threw
    THEN HookResult("rejected", run.error,
                    <<Logged("info", "Hot reload detected, updating PWA manifest..."),
                      Logged("warn", run.error)>>, run.disk)
    ELSE HookResult("resolved", "",
                    <<Logged("info", "Hot reload detected, updating PWA manifest...")>>, run.disk)

\* onHotReload's logging around the try block, and its catch block.
HotReloadOutcome(run) ==
    IF run.threw
    THEN HookResult("resolved", "",
                    <<Logged("info", "Hot reload detected, updating PWA manifest..."),
                      Logged("warn", run.error)>>, run.disk)
    ELSE HookResult("resolved", "",
                    <<Logged("info", "Hot reload detected, updating PWA manifest...")>>, run.disk)

onHotReload(config, context, fs, disk, now) ==
    IF ~DevEnabled(config) THEN HookResult("resolved", "", <<>>, disk)
    ELSE HotReloadOutcome(GenerateAndWrite(config, context, fs, disk, now))

-----------------------------------------------------------------------------
(* build/compile-sw.ts and templates/sw.ts: the globals injected into the   *)
(* service worker.  A define is [name, text, by]: the identifier esbuild    *)
(* replaces, the text it puts in its place, and what produced the text.     *)

Define(name, text, by) == [name |-> name, text |-> text, by |-> by]

\* The injected globals the template's top-level code reads, in the order it
\* reads them; __PWA_OFFLINE_FALLBACK_PAGE__ only when __PWA_FALLBACKS__ is
\* falsy.  (__PWA_SCOPE__ is read in the notification-click handler.)
TemplateReads(fallbacksTruthy) ==
    <<"__PWA_SKIP_WAITING__", "__PWA_CLIENT_CLAIM__", "__PWA_PRECACHE_MANIFEST__",
      "__PWA_RUNTIME_CACHING__", "__PWA_FALLBACKS__">>
    \o (IF fallbacksTruthy THEN <<>> ELSE <<"__PWA_OFFLINE_FALLBACK_PAGE__">>)
    \o <<"__PWA_PUSH_CONFIG__", "__PWA_SYNC_CONFIG__">>

\* Every injected global the template declares and reads.
TemplateGlobals ==
    {"__PWA_PRECACHE_MANIFEST__", "__PWA_RUNTIME_CACHING__", "__PWA_SCOPE__",
     "__PWA_SKIP_WAITING__", "__PWA_CLIENT_CLAIM__", "__PWA_OFFLINE_FALLBACK_PAGE__",
     "__PWA_FALLBACKS__", "__PWA_PUSH_CONFIG__", "__PWA_SYNC_CONFIG__"}

\* extractSWConfig: the fixed properties, then fallbacks if it is defined.
extractSWConfig(config) ==
    JsObject(<<Prop(Key("skipWaiting"), config.skipWaiting),
               Prop(Key("clientsClaim"), config.clientsClaim),
               Prop(Key("scope"), config.scope)>>
             \o (IF config.fallbacks.t = "undefined" THEN <<>>
                 ELSE <<Prop(Key("fallbacks"), config.fallbacks)>>))

\* if (value), for the values a fallbacks option takes.
Truthy(value) == value.t \notin {"undefined", "null", "false"}

\* The define table of the esbuild call; "threw" when an escape threw.
DefineTable(manifest, mode, config) ==
    LET swConfig == extractSWConfig(config)
        escapedManifest == escapeForServiceWorker(manifest)
        escapedConfig == escapeForServiceWorker(swConfig)
        escapedFallbacks == IF Truthy(config.fallbacks)
                            THEN escapeForServiceWorker(config.fallbacks)
                            ELSE Returned(Text_null)
    IN  IF escapedManifest.threw \/ escapedConfig.threw \/ escapedFallbacks.threw
        THEN [threw |-> TRUE, define |-> <<>>]
        ELSE [threw |-> FALSE,
              define |-> <<Define("__PWA_MANIFEST__", escapedManifest.str, "escapeForServiceWorker"),
                           Define("__PWA_CONFIG__", escapedConfig.str, "escapeForServiceWorker"),
                           Define("__PWA_MODE__", JSONstringify(JsString(mode)).str, "JSON.stringify"),
                           Define("__PWA_FALLBACKS__", escapedFallbacks.str,
                                  IF Truthy(config.fallbacks) THEN "escapeForServiceWorker"
                                  ELSE "literal")>>]

DefinedNames(define) == {define[i].name : i \in 1..Len(define)}

\* The worker's top-level code: each read of an identifier that esbuild did
\* not replace is a ReferenceError, which ends the script.
RECURSIVE ReadGlobals(_, _, _)
ReadGlobals(reads, defined, done) ==
    IF reads = <<>> THEN [started |-> TRUE, read |-> done, error |-> ""]
    ELSE IF Head(reads) \notin defined
    THEN [started |-> TRUE, read |-> done, error |-> Head(reads)]
    ELSE ReadGlobals(Tail(reads), defined, Append(done, Head(reads)))

-----------------------------------------------------------------------------
(* Bounds *)

MaxPathLen == 5

PathAlphabet == {".", "/", BSL, " ", NUL, "a"}

MaxFragments == 3

\* The pieces the strings handed to escapeForServiceWorker are built from:
\* every character and sequence one of its replacements looks for, both
\* characters JSON.stringify escapes, and an ordinary letter.
EscFragments ==
    { <<BSL>>, <<BTK>>, <<"$">>, <<"{">>, <<"\"">>, <<NL>>, <<LS>>, <<PS>>, <<"a">>,
      Text_ScriptClose,
      <<"<", "/", "S", "c", "R", "i", "P", "t", ">">>,
      Text_CommentOpen }

RECURSIVE Concat(_)
Concat(parts) == IF parts = <<>> THEN <<>> ELSE Head(parts) \o Concat(Tail(parts))

EscStrings == {Concat(parts) : parts \in SeqsUpTo(EscFragments, MaxFragments)}

\* Values nested in an array or an object.
EscLeaves ==
    {JsNull, JsNumber(7), JsUndefined, JsFunction, JsBigInt(5)}
        \cup {JsString(f) : f \in EscFragments}

EscInputs ==
    {JsUndefined, JsFunction, JsSymbol, JsNull, JsTrue, JsFalse, JsCyclic}
        \cup {JsBigInt(n) : n \in {0, 123, -45}}
        \cup {JsNumber(n) : n \in {0, 123, -1}}
        \cup {JsString(str) : str \in EscStrings}
        \cup {JsArray(items) : items \in SeqsUpTo(EscLeaves, 2)}
        \cup {JsObject(<<Prop(k, v)>>) : k \in EscFragments, v \in EscLeaves}
        \cup {JsObject(<<Prop(<<"k">>, JsCyclic)>>), JsArray(<<JsArray(<<JsString(<<"a">>)>>)>>)}

\* Candidate rules: every field absent, well-formed, or malformed in each of
\* the ways the sanitizer tests for, with properties outside the allow-list.
Absent == JsUndefined

LongName == [i \in 1..101 |-> "a"]

UrlPatternChoices ==
    { Absent, JsString(<<"/", "api">>), JsString(<<>>), JsString(<<"/", NUL>>),
      JsRegExp(<<"^", "/", "api">>), JsFunction, JsNumber(1) }

HandlerChoices ==
    {JsString(<<ALLOWED_HANDLERS[i]>>) : i \in 1..Len(ALLOWED_HANDLERS)}
        \cup {Absent, JsString(<<"cacheFirst">>), JsString(<<"eval">>), JsNumber(1)}

CacheNameChoices ==
    { Absent, JsString(<<"a", "-", "9">>), JsString(<<"a", " ", "b">>),
      JsString(LongName), JsNumber(1) }

MaxEntriesChoices ==
    {Absent, JsNumber(50), JsNumber(0), JsNumber(10001), JsFraction, JsString(<<"5">>)}

MaxAgeChoices == {Absent, JsNumber(60), JsNumber(31536001)}

TimeoutChoices == {Absent, JsNumber(10), JsNumber(301), JsNumber(0)}

ExpirationChoices ==
    {Absent, JsNull}
        \cup { JsObject(KeepProps(<<Prop(Key("maxEntries"), e),
                                    Prop(Key("maxAgeSeconds"), a),
                                    Prop(Key("purgeOnQuotaError"), JsTrue)>>))
               : e \in MaxEntriesChoices, a \in MaxAgeChoices }

OptionsChoices ==
    {Absent, JsNull, JsString(<<"a">>)}
        \cup { JsObject(KeepProps(<<Prop(Key("cacheName"), c),
                                    Prop(Key("expiration"), x),
                                    Prop(Key("networkTimeoutSeconds"), t),
                                    Prop(Key("plugins"), JsArray(<<JsFunction>>))>>))
               : c \in CacheNameChoices, x \in ExpirationChoices, t \in TimeoutChoices }

RuleInputs ==
    {JsNull, JsUndefined, JsString(<<"a">>), JsNumber(1), JsArray(<<>>)}
        \cup { JsObject(KeepProps(<<Prop(Key("urlPattern"), u),
                                    Prop(Key("handler"), h),
                                    Prop(Key("options"), o),
                                    Prop(Key("method"), m),
                                    Prop(Key("plugins"), m)>>))
               : u \in UrlPatternChoices, h \in HandlerChoices, o \in OptionsChoices,
                 m \in {Absent, JsString(<<"GET">>)} }

MaxCustom == 2
MaxDefaults == 2

\* The caller's rules: string, RegExp and function patterns, some with the
\* identity of a default rule, some sharing an identity with each other.
CustomRulePool ==
    { Rule(JsString(Pattern_Api), "CacheFirst", JsUndefined, <<CacheName("my-api")>>),
      Rule(JsString(Pattern_Api), "NetworkOnly", JsUndefined, <<>>),
      Rule(JsString(Pattern_CatchAll), "CacheOnly", JsUndefined, <<>>),
      Rule(JsString(<<"/", "custom", "/", "*">>), "CacheFirst", JsUndefined, <<>>),
      Rule(JsString(<<"^", BSL, "/", "api", BSL, "/", ".", "*">>), "CacheFirst", JsUndefined, <<>>),
      Rule(JsRegExp(<<"^", BSL, "/", "api", BSL, "/", ".", "*">>), "CacheFirst", JsUndefined, <<>>),
      Rule(JsRegExp(Pattern_Api), "CacheFirst", JsUndefined, <<>>),
      Rule(JsRegExp(Pattern_CatchAll), "NetworkOnly", JsUndefined, <<>>),
      Rule(Fn_Image, "NetworkFirst", JsUndefined, <<>>),
      Rule(JsFunctionOf(<<"({ url }) => url.pathname.startsWith('/x')">>), "CacheFirst",
           JsUndefined, <<>>) }

\* Default lists other than the built-in one.
DefaultRulePool ==
    { getDefaultRuntimeCaching[9], getDefaultRuntimeCaching[13], getDefaultRuntimeCaching[4],
      Rule(JsString(Pattern_Api), "CacheFirst", JsUndefined, <<CacheName("apis-2")>>) }

CustomLists == SeqsUpTo(CustomRulePool, MaxCustom)
DefaultLists == {getDefaultRuntimeCaching} \cup SeqsUpTo(DefaultRulePool, MaxDefaults)

\* Requests: both methods, every origin a default rule names and one more,
\* paths with and without a static-file extension, every destination a
\* default rule names and two more.
RequestUrls ==
    { [scheme |-> sc, host |-> h, path |-> pa] :
          sc \in {"https:", "http:"},
          h \in {"self", "fonts.googleapis.com", "fonts.gstatic.com", "cdn.jsdelivr.net",
                 "cdnjs.cloudflare.com", "unpkg.com", "other.example"},
          pa \in { <<"/", "api", "/", "users">>, <<"/", "about">>, <<"/">>,
                   <<"/", "logo", ".", "png">>, <<"/", "font", ".", "woff2">>,
                   <<"/", "api", "/", "icon", ".", "ico">> } }

Requests ==
    { [method |-> m, url |-> u, destination |-> d] :
          m \in {"GET", "POST"}, u \in RequestUrls,
          d \in {"", "document", "image", "audio", "video", "script", "style", "font"} }

\* Pieces of percent-encoded paths: the encoded dot in both cases, the
\* doubly encoded dot, and what they are put next to.
EncodedFragments ==
    {Chars("%2e"), Chars("%2E"), Chars("%252e"), <<".">>, <<"/">>, <<BSL>>, <<"x">>}

EncodedPaths == {Concat(parts) : parts \in SeqsUpTo(EncodedFragments, MaxFragments)}

PathInputs ==
    {TextValue(s) : s \in SeqsUpTo(PathAlphabet, MaxPathLen) \cup EncodedPaths}
        \cup NonStringValues

-----------------------------------------------------------------------------
(* sanitizePath applied to a value, then to its own result *)

InitPath ==
    /\ pathIn \in PathInputs
    /\ pathOut = Pending
    /\ pathAgain = Pending

IdlePath ==
    /\ pathIn = [type |-> "undefined", str |-> <<>>]
    /\ pathOut = Pending
    /\ pathAgain = Pending

SanitizePath ==
    /\ ~pathOut.done
    /\ pathOut' = Done(sanitizePath(pathIn))
    /\ UNCHANGED <<pathIn, pathAgain, escVars, ruleVars, mergeVars, routeVars, genVars, pwaVars, laterVars>>

SanitizePathAgain ==
    /\ pathOut.done
    /\ ~pathAgain.done
    /\ pathAgain' = Done(sanitizePath(TextValue(pathOut.str)))
    /\ UNCHANGED <<pathIn, pathOut, escVars, ruleVars, mergeVars, routeVars, genVars, pwaVars, laterVars>>

NextPath == SanitizePath \/ SanitizePathAgain

-----------------------------------------------------------------------------
(* escapeForServiceWorker applied to a value; its text read back by       *)
(* JSON.parse                                                             *)

NotParsed == [done |-> FALSE, ok |-> FALSE, val |-> JsNull]

InitEsc ==
    /\ escIn \in EscInputs
    /\ escOut = NotCalled
    /\ escParsed = NotParsed

IdleEsc ==
    /\ escIn = JsUndefined
    /\ escOut = NotCalled
    /\ escParsed = NotParsed

Escape ==
    /\ ~escOut.done
    /\ escOut' = escapeForServiceWorker(escIn)
    /\ UNCHANGED <<escIn, escParsed, pathVars, ruleVars, mergeVars, routeVars, genVars, pwaVars, laterVars>>

ParseBack ==
    /\ escOut.done
    /\ ~escOut.threw
    /\ ~escParsed.done
    /\ escParsed' = [done |-> TRUE] @@ JSONparse(escOut.str)
    /\ UNCHANGED <<escIn, escOut, pathVars, ruleVars, mergeVars, routeVars, genVars, pwaVars, laterVars>>

NextEsc == Escape \/ ParseBack

-----------------------------------------------------------------------------
(* sanitizeRuntimeCachingRule applied to a candidate *)

NoResult == [done |-> FALSE, val |-> JsNull]

InitRule ==
    /\ ruleIn \in RuleInputs
    /\ ruleOut = NoResult

IdleRule ==
    /\ ruleIn = JsUndefined
    /\ ruleOut = NoResult

SanitizeRule ==
    /\ ~ruleOut.done
    /\ ruleOut' = [done |-> TRUE, val |-> sanitizeRuntimeCachingRule(ruleIn)]
    /\ UNCHANGED <<ruleIn, pathVars, escVars, mergeVars, routeVars, genVars, pwaVars, laterVars>>

NextRule == SanitizeRule

-----------------------------------------------------------------------------
(* mergeRuntimeCaching applied to a custom list and a defaults list *)

NotMerged == [done |-> FALSE, rules |-> <<>>]

InitMerge ==
    /\ customIn \in CustomLists
    /\ defaultsIn \in DefaultLists
    /\ merged = NotMerged

IdleMerge ==
    /\ customIn = <<>>
    /\ defaultsIn = <<>>
    /\ merged = NotMerged

Merge ==
    /\ ~merged.done
    /\ merged' = [done |-> TRUE, rules |-> mergeRuntimeCaching(customIn, defaultsIn)]
    /\ UNCHANGED <<customIn, defaultsIn, pathVars, escVars, ruleVars, routeVars,
                   genVars, pwaVars, laterVars>>

NextMerge == Merge

-----------------------------------------------------------------------------
(* A request evaluated against the default rules, first match wins *)

NotRouted == [done |-> FALSE, rule |-> 0]

InitRoute ==
    /\ request \in Requests
    /\ matched = NotRouted

IdleRoute ==
    /\ request = [method |-> "GET",
                  url |-> [scheme |-> "https:", host |-> "self", path |-> <<"/">>],
                  destination |-> ""]
    /\ matched = NotRouted

Dispatch ==
    /\ ~matched.done
    /\ matched' = [done |-> TRUE, rule |-> FirstMatch(getDefaultRuntimeCaching, request)]
    /\ UNCHANGED <<request, pathVars, escVars, ruleVars, mergeVars, genVars, pwaVars, laterVars>>

NextRoute == Dispatch

-----------------------------------------------------------------------------
(* generatePrecacheManifest: inputs and steps *)

MaxListed == 2
MaxTicks == 1

ProjectRoot == Chars("/project")

\* Sequences of at most n distinct members of pool, in every order.
RECURSIVE Listings(_, _)
Listings(pool, n) ==
    IF n = 0 THEN {<<>>}
    ELSE LET shorter == Listings(pool, n - 1)
             longer ==
                 {pair \in shorter \X pool :
                     /\ Len(pair[1]) = n - 1
                     /\ \A i \in 1..Len(pair[1]) : pair[1][i] # pair[2]}
         IN  shorter \cup {Append(pair[1], pair[2]) : pair \in longer}

StaticPool ==
    {Chars("chunks/abcdef1234.js"), Chars("chunks/main.js"), Chars("chunks/app.3f9a1b2c.js")}

PublicPool ==
    {Chars("robots.txt"), Chars("logo.png"), Chars("_next/static/chunks/main.js")}

NoBuildManifest ==
    [polyfillFiles |-> <<>>, rootMainFiles |-> <<>>, lowPriorityFiles |-> <<>>,
     pages |-> <<>>]

SomeBuildManifest ==
    [polyfillFiles |-> <<Chars("static/chunks/polyfills.js")>>,
     rootMainFiles |-> <<Chars("/_next/static/chunks/main.js")>>,
     lowPriorityFiles |-> <<Chars("static/chunks/main.js.map")>>,
     pages |-> <<<<Chars("static/chunks/polyfills.js"),
                   Chars("static/chunks/pages/index.js")>>>>]

\* A build-manifest.json that names paths leading out of the build directory.
HostileBuildManifest ==
    [polyfillFiles |-> <<Chars("../../etc/passwd")>>,
     rootMainFiles |-> <<Chars("static/../../secrets.js"), Chars("..")>>,
     lowPriorityFiles |-> <<>>,
     pages |-> <<>>]

BuildManifests ==
    {[state |-> "missing", json |-> NoBuildManifest],
     [state |-> "unparsable", json |-> NoBuildManifest],
     [state |-> "ok", json |-> SomeBuildManifest],
     [state |-> "ok", json |-> HostileBuildManifest]}

ListedBuildManifests ==
    {[state |-> "missing", json |-> NoBuildManifest],
     [state |-> "ok", json |-> SomeBuildManifest]}

Unreadables ==
    {{},
     {Chars("/project/.next/static/chunks/main.js")},
     {Chars("/project/.next/static/chunks/main.js"),
      Chars("/project/.next/static/chunks/abcdef1234.js"),
      Chars("/project/public/robots.txt"), Chars("/project/public/logo.png")}}

ListingStates == {"missing", "fails", "ok"}

\* File systems that vary in what is listed and what can be read.
ListedFileSystems ==
    {[manifest |-> m, static |-> [state |-> "ok", files |-> sf],
      public |-> [state |-> "ok", files |-> pf], unreadable |-> u] :
        m \in ListedBuildManifests, sf \in Listings(StaticPool, MaxListed),
        pf \in Listings(PublicPool, MaxListed), u \in Unreadables}

\* File systems that vary in which directory is there and can be listed.
BrokenFileSystems ==
    {[manifest |-> m,
      static |-> [state |-> ss, files |-> <<Chars("chunks/abcdef1234.js")>>],
      public |-> [state |-> ps, files |-> <<Chars("robots.txt")>>],
      unreadable |-> u] :
        m \in BuildManifests, ss \in ListingStates, ps \in ListingStates,
        u \in Unreadables}

\* A file system to run every combination of options over: a content-hashed
\* chunk, a plain chunk and a file of the public directory that takes the
\* url of a build asset.
TypicalFileSystems ==
    {[manifest |-> [state |-> "ok", json |-> SomeBuildManifest],
      static |-> [state |-> "ok",
                  files |-> <<Chars("chunks/abcdef1234.js"), Chars("chunks/main.js"),
                              Chars("chunks/deadbeef12-page.js")>>],
      public |-> [state |-> "ok",
                  files |-> <<Chars("robots.txt"), Chars("_next/static/chunks/main.js"),
                              Chars("logo.png")>>],
      unreadable |-> u] : u \in {v \in Unreadables : Cardinality(v) # 1}}

BuildDirs ==
    {Chars("/project/.next"), Chars("/project-evil/.next"), Chars("/elsewhere/.next"),
     Chars("/project/../outside/.next"), Chars("/project/sub/../.next")}

PublicDirs ==
    {Chars("/project/public"), Chars("/project-evil/public"), Chars("/srv/public"),
     Chars("/project/./public")}

BasePaths == {<<>>, Chars("/"), Chars("/app"), Chars("/deadbeef12-app")}

Rewrites ==
    {<<>>,
     <<[from |-> Chars("/_next/static/"), to |-> Chars("/_next/")],
       [from |-> Chars("/_next/"), to |-> Chars("/n/")]>>,
     <<[from |-> Chars("/app/_next/static/chunks/"), to |-> Chars("/app/")],
       [from |-> Chars("/_next/static/chunks/"), to |-> Chars("/")]>>}

\* buildExcludes with publicExcludes.
Excludes ==
    {[build |-> <<>>, public |-> <<>>],
     [build |-> <<Chars("*.map")>>, public |-> <<Chars("robots.txt")>>]}

AdditionalEntries ==
    {<<>>,
     <<[url |-> TextValue(Chars("/robots.txt")), revision |-> RevisionText(Chars("v1"))]>>,
     <<[url |-> TextValue(Chars("/offline")), revision |-> RevisionNull],
       [url |-> TextValue(Chars("/offline")), revision |-> RevisionText(Chars("v2"))],
       [url |-> TextValue(Chars("/start")), revision |-> RevisionText(Chars("v3"))]>>,
     <<[url |-> TextValue(Chars("/../secret")), revision |-> RevisionNull],
       [url |-> [type |-> "number", str |-> <<>>], revision |-> RevisionNull],
       [url |-> TextValue(<<>>), revision |-> RevisionNull],
       [url |-> TextValue(Chars("offline.html")), revision |-> RevisionText(Chars("v1"))]>>}

OptionsOf(buildDir, publicDir, basePath, rewrite, buildExcludes, publicExcludes, extra) ==
    [buildDir |-> buildDir, publicDir |-> publicDir, basePath |-> basePath,
     publicExcludes |-> publicExcludes, buildExcludes |-> buildExcludes,
     additionalManifestEntries |-> extra, modifyURLPrefix |-> rewrite,
     projectRoot |-> ProjectRoot]

PlainOptions ==
    {OptionsOf(Chars("/project/.next"), Chars("/project/public"), Chars("/app"),
               <<>>, <<>>, <<>>, <<>>)}

VariedOptions ==
    {OptionsOf(Chars("/project/.next"), Chars("/project/public"), b, r, e.build, e.public, x) :
        b \in BasePaths, r \in Rewrites, e \in Excludes, x \in AdditionalEntries}

MisplacedOptions ==
    {OptionsOf(bd, pd, <<>>, <<>>, <<>>, <<>>, <<>>) : bd \in BuildDirs, pd \in PublicDirs}

GenInputs ==
    (PlainOptions \X (ListedFileSystems \cup BrokenFileSystems))
        \cup (VariedOptions \X TypicalFileSystems)
        \cup (MisplacedOptions \X TypicalFileSystems)

InitGen ==
    /\ \E input \in GenInputs : genOptions = input[1] /\ genFs = input[2]
    /\ genClock = 0
    /\ genFirst = ManifestNotRun
    /\ genSecond = ManifestNotRun

IdleGen ==
    /\ genOptions = OptionsOf(<<>>, <<>>, <<>>, <<>>, <<>>, <<>>, <<>>)
    /\ genFs = [manifest |-> [state |-> "missing", json |-> NoBuildManifest],
                static |-> [state |-> "missing", files |-> <<>>],
                public |-> [state |-> "missing", files |-> <<>>], unreadable |-> {}]
    /\ genClock = 0
    /\ genFirst = ManifestNotRun
    /\ genSecond = ManifestNotRun

\* await generatePrecacheManifest(options)
Generate ==
    /\ ~genFirst.done
    /\ genFirst' = generatePrecacheManifest(genOptions, genFs, genClock)
    /\ UNCHANGED <<genOptions, genFs, genClock, genSecond, pathVars, escVars, ruleVars, mergeVars,
                   routeVars, pwaVars, laterVars>>

\* The same call once more, no earlier than the first, nothing changed on disk.
GenerateAgain ==
    /\ genFirst.done
    /\ ~genSecond.done
    /\ \E now \in genClock..MaxTicks :
        /\ genClock' = now
        /\ genSecond' = generatePrecacheManifest(genOptions, genFs, now)
    /\ UNCHANGED <<genOptions, genFs, genFirst, pathVars, escVars, ruleVars, mergeVars,
                   routeVars, pwaVars, laterVars>>

NextGen == Generate \/ GenerateAgain

-----------------------------------------------------------------------------
(* writePWAManifest, readPWAManifest: inputs and steps *)

MaxWritten == 2

PrecacheEntry(url, revision) ==
    JsObject(<<Prop(Key("url"), JsString(url)), Prop(Key("revision"), revision)>>)

WrittenPool ==
    {PrecacheEntry(Chars("/app/robots.txt"), JsString(Chars("0a1b2c3d"))),
     PrecacheEntry(Chars("/_next/static/chunks/app.3f9a1b2c.js"), JsNull),
     PrecacheEntry(<<"/", "a", "\"", BSL, NL, "b">>, JsString(<<>>))}

PwaManifests == {JsArray(entries) : entries \in Listings(WrittenPool, MaxWritten)}

PwaPaths ==
    {Chars("/project/.next/pwa-manifest.json"), Chars("/project/pwa..json"),
     Chars("/project/sub/../pwa-manifest.json"), Chars("/project/%2E%2e/pwa-manifest.json"),
     Chars("/project/../etc/pwa-manifest.json"), Chars("/etc/pwa-manifest.json"),
     Chars("/project-evil/pwa-manifest.json")}

PwaDisks ==
    {[state |-> "missing", text |-> <<>>, writable |-> w] : w \in BOOLEAN}
        \cup {[state |-> "file", text |-> t, writable |-> w] :
                 w \in BOOLEAN,
                 t \in {<<>>, Chars("{oops"), Chars("[]"), Chars("null"),
                        StringifyIndented(
                            JsArray(<<PrecacheEntry(Chars("/old.js"), JsNull)>>), <<>>)}}

InitPwa ==
    /\ pwaArgs \in {[path |-> f, manifest |-> m, projectRoot |-> ProjectRoot] :
                       f \in PwaPaths, m \in PwaManifests}
    /\ pwaDisk \in PwaDisks
    /\ pwaWrite = PwaNotCalled
    /\ pwaRead = PwaNotCalled

IdlePwa ==
    /\ pwaArgs = [path |-> <<>>, manifest |-> JsArray(<<>>), projectRoot |-> <<>>]
    /\ pwaDisk = [state |-> "missing", text |-> <<>>, writable |-> TRUE]
    /\ pwaWrite = PwaNotCalled
    /\ pwaRead = PwaNotCalled

\* await writePWAManifest(manifest, outputPath, projectRoot)
WritePWAManifest ==
    /\ ~pwaWrite.done
    /\ LET call == writePWAManifest(pwaArgs.manifest, pwaArgs.path, pwaArgs.projectRoot,
                                    pwaDisk)
       IN  pwaWrite' = call.outcome /\ pwaDisk' = call.disk
    /\ UNCHANGED <<pwaArgs, pwaRead, pathVars, escVars, ruleVars, mergeVars, routeVars,
                   genVars, laterVars>>

\* await readPWAManifest(manifestPath, projectRoot)
ReadPWAManifest ==
    /\ ~pwaRead.done
    /\ pwaRead' = readPWAManifest(pwaArgs.path, pwaArgs.projectRoot, pwaDisk)
    /\ UNCHANGED <<pwaArgs, pwaDisk, pwaWrite, pathVars, escVars, ruleVars, mergeVars,
                   routeVars, genVars, laterVars>>

NextPwa == WritePWAManifest \/ ReadPWAManifest

-----------------------------------------------------------------------------
(* validateScope: inputs and step *)

MaxScopeLen == 3

ScopeAlphabet == {"/", ".", "a", "?", "#", BSL, NUL}

ScopeInputs ==
    {TextValue(s) : s \in SeqsUpTo(ScopeAlphabet, MaxScopeLen)} \cup NonStringValues

BasePathInputs ==
    {TextValue(s) : s \in {<<>>, <<"/">>, <<"/", "a">>, <<"/", "a", "/">>, <<"a">>}}
        \cup {[type |-> t, str |-> <<>>] : t \in {"undefined", "null", "number"}}

InitScope ==
    /\ scopeIn \in {[scope |-> s, basePath |-> b] : s \in ScopeInputs, b \in BasePathInputs}
    /\ scopeOut = [done |-> FALSE, val |-> FALSE]

IdleScope ==
    /\ scopeIn = [scope |-> [type |-> "undefined", str |-> <<>>],
                  basePath |-> [type |-> "undefined", str |-> <<>>]]
    /\ scopeOut = [done |-> FALSE, val |-> FALSE]

ValidateScope ==
    /\ ~scopeOut.done
    /\ scopeOut' = [done |-> TRUE, val |-> validateScope(scopeIn.scope, scopeIn.basePath)]
    /\ UNCHANGED <<scopeIn, allButScopeVars>>

NextScope == ValidateScope

-----------------------------------------------------------------------------
(* getDefaultRuntimeCaching: calls, and mutations between them *)

MaxCalls == 2
MaxMutations == 2

\* The rules a caller changes: the first and the last of a list.
MutatedIndexes(items) == {1, Len(items)} \cap (1..Len(items))

InitDefaults ==
    /\ dfHeap = <<>>
    /\ dfCalls = <<>>
    /\ dfMutations = <<>>

IdleDefaults == InitDefaults

\* const rules = getDefaultRuntimeCaching()
CallDefaults ==
    /\ Len(dfCalls) < MaxCalls
    /\ LET call == ReturnDefaults(dfHeap)
       IN  /\ dfHeap' = call.heap
           /\ dfCalls' = Append(dfCalls, [list |-> call.list,
                                          rules |-> call.heap[call.list].items,
                                          returned |-> ReadList(call.heap, call.list)])
    /\ UNCHANGED <<dfMutations, allButDefaultsVars>>

\* rules.pop(), rules.shift(), rules.push(rules[0])
MutateList ==
    /\ Len(dfMutations) < MaxMutations
    /\ \E k \in 1..Len(dfCalls), op \in {"pop", "shift", "push"} :
           dfHeap' = [dfHeap EXCEPT ![dfCalls[k].list].items = MutatedItems(@, op)]
    /\ dfMutations' = Append(dfMutations, Len(dfCalls))
    /\ UNCHANGED <<dfCalls, allButDefaultsVars>>

\* rules[i].handler = ..., rules[i].options.cacheName = ...
MutateRule ==
    /\ Len(dfMutations) < MaxMutations
    /\ \E k \in 1..Len(dfCalls), op \in {"handler", "cacheName"} :
           \E i \in MutatedIndexes(dfHeap[dfCalls[k].list].items) :
               dfHeap' = [dfHeap EXCEPT ![dfHeap[dfCalls[k].list].items[i]].rule =
                                             MutatedRule(@, op)]
    /\ dfMutations' = Append(dfMutations, Len(dfCalls))
    /\ UNCHANGED <<dfCalls, allButDefaultsVars>>

NextDefaults == CallDefaults \/ MutateList \/ MutateRule

-----------------------------------------------------------------------------
(* The service worker: the install step and the catch handler *)

Categories == {FallbackOrder[i] : i \in 1..Len(FallbackOrder)}

NoFallbackUrls == [category \in Categories |-> ""]

FallbackTable(document, image, font, audio, video) ==
    [category \in Categories |->
        CASE category = "document" -> document
          [] category = "image" -> image
          [] category = "font" -> font
          [] category = "audio" -> audio
          [] OTHER -> video]

\* The configurations: [configured, urls, offlinePage]; the third table gives
\* one URL to two categories.
SwConfigs ==
    {[configured |-> FALSE, urls |-> NoFallbackUrls, offlinePage |-> ""],
     [configured |-> FALSE, urls |-> NoFallbackUrls, offlinePage |-> "/offline.html"],
     [configured |-> TRUE, urls |-> NoFallbackUrls, offlinePage |-> "/offline.html"],
     [configured |-> TRUE, urls |-> FallbackTable("/_offline", "", "", "", ""), offlinePage |-> ""],
     [configured |-> TRUE, urls |-> FallbackTable("/_offline", "/fallback.png", "", "", ""),
      offlinePage |-> "/offline.html"],
     [configured |-> TRUE, urls |-> FallbackTable("/fallback.png", "/fallback.png", "/fallback.woff2", "", ""),
      offlinePage |-> ""],
     [configured |-> TRUE,
      urls |-> FallbackTable("/_offline", "/fallback.png", "/fallback.woff2", "/fallback.mp3", "/fallback.mp4"),
      offlinePage |-> ""]}

\* What the cache 'offline-fallbacks' holds from an earlier version of the worker.
EarlierCaches == {{}, {"/old-offline.html"}}

FailedRequests ==
    [mode : {"navigate", "no-cors"},
     destination : {"document", "image", "font", "audio", "video", "script"}]

InstallIdle == [phase |-> "idle", before |-> {}, urls |-> <<>>, pending |-> {}, failed |-> {}]
NoResponse == [kind |-> "none", request |-> [mode |-> "", destination |-> ""],
               category |-> "", url |-> "", failing |-> {}]

\* The table the registered catch handler works with: __PWA_FALLBACKS__, or
\* the legacy offline page as the document fallback.
HandlerTable ==
    IF swFallbacks.configured THEN swFallbacks.urls
    ELSE [NoFallbackUrls EXCEPT !["document"] = swOfflinePage]

HandlerRegistered == swFallbacks.configured \/ swOfflinePage # ""

IdleSw ==
    /\ swFallbacks = [configured |-> FALSE, urls |-> NoFallbackUrls]
    /\ swOfflinePage = ""
    /\ swCache = {}
    /\ swOther = {}
    /\ swInstall = InstallIdle
    /\ swHandler = "template"
    /\ swResponse = NoResponse

\* A worker about to be installed.
InitInstall ==
    /\ \E config \in SwConfigs :
           /\ swFallbacks = [configured |-> config.configured, urls |-> config.urls]
           /\ swOfflinePage = config.offlinePage
    /\ swCache \in EarlierCaches
    /\ swOther = {}
    /\ swInstall = InstallIdle
    /\ swHandler = "template"
    /\ swResponse = NoResponse

\* self.addEventListener('install', ...): the listener of the configured
\* branch runs; with URLs to cache it hands event.waitUntil the promise of
\* caches.open(...).
InstallEvent ==
    /\ swInstall.phase = "idle"
    /\ LET urls == IF swFallbacks.configured THEN fallbackUrls(swFallbacks.urls)
                   ELSE IF swOfflinePage # "" THEN <<swOfflinePage>>
                   ELSE <<>>
       IN  swInstall' = [swInstall EXCEPT !.phase = IF urls = <<>> THEN "done" ELSE "opening",
                                          !.before = swCache,
                                          !.urls = urls]
    /\ UNCHANGED <<swFallbacks, swOfflinePage, swCache, swOther, swHandler, swResponse,
                   allButSwVars>>

\* caches.open(FALLBACK_CACHE_NAME) settles; fulfilled, one cache.add per URL starts.
OpenSettles ==
    /\ swInstall.phase = "opening"
    /\ \E ok \in BOOLEAN :
           swInstall' = IF ok THEN [swInstall EXCEPT !.phase = "adding",
                                                     !.pending = 1..Len(swInstall.urls)]
                        ELSE [swInstall EXCEPT !.phase = "failed"]
    /\ UNCHANGED <<swFallbacks, swOfflinePage, swCache, swOther, swHandler, swResponse,
                   allButSwVars>>

\* One cache.add(url) settles.
AddSettles ==
    /\ swInstall.phase = "adding"
    /\ \E i \in swInstall.pending, ok \in BOOLEAN :
           /\ swCache' = CacheAfterAdd(swCache, swInstall.urls[i], ok)
           /\ swInstall' = [swInstall EXCEPT !.pending = @ \ {i},
                                             !.failed = IF ok THEN @ ELSE @ \cup {i}]
    /\ UNCHANGED <<swFallbacks, swOfflinePage, swOther, swHandler, swResponse, allButSwVars>>

\* Every cache.add has settled.  Promise.allSettled(...) fulfils whatever the
\* outcomes and its callback logs the failures; the legacy listener waits on
\* the one cache.add itself, whose rejection fails the install.
InstallSettles ==
    /\ swInstall.phase = "adding"
    /\ swInstall.pending = {}
    /\ swInstall' = [swInstall EXCEPT !.phase =
                        IF swFallbacks.configured \/ swInstall.failed = {} THEN "done"
                        ELSE "failed"]
    /\ UNCHANGED <<swFallbacks, swOfflinePage, swCache, swOther, swHandler, swResponse,
                   allButSwVars>>

NextInstall == InstallEvent \/ OpenSettles \/ AddSettles \/ InstallSettles

\* An installed worker: the fallback cache holds some of the configured URLs,
\* another cache may hold one of them.
InitCatch ==
    /\ \E config \in SwConfigs :
           /\ swFallbacks = [configured |-> config.configured, urls |-> config.urls]
           /\ swOfflinePage = config.offlinePage
           /\ config.configured \/ config.offlinePage # ""
    /\ swCache \in SUBSET {HandlerTable[category] : category \in {"document", "image", "font"}}
    /\ "" \notin swCache
    /\ swOther \in {{}, {"/fallback.png"}}
    /\ swInstall = [InstallIdle EXCEPT !.phase = "done"]
    /\ swHandler \in {"template", "generated"}
    /\ swHandler = "generated" => swFallbacks.configured
    /\ swResponse = NoResponse

\* The routing of a request fails and the catch handler is called; for at
\* most one URL caches.match rejects.
HandleFailedRequest ==
    /\ swInstall.phase = "done"
    /\ HandlerRegistered
    /\ \E req \in FailedRequests :
       \E failing \in {{}} \cup {{HandlerTable[category]} : category \in Categories} :
           LET cached == swCache \cup swOther
               answer == IF swHandler = "template"
                         THEN catchHandler(HandlerTable, req, cached, failing)
                         ELSE generatedCatchHandler(HandlerTable, req, cached, failing)
           IN  swResponse' = [kind |-> answer.kind, request |-> req,
                              category |-> answer.category, url |-> answer.url,
                              failing |-> failing]
    /\ UNCHANGED <<swFallbacks, swOfflinePage, swCache, swOther, swInstall, swHandler,
                   allButSwVars>>

NextCatch == HandleFailedRequest

-----------------------------------------------------------------------------
(* useOnlineStatus: a component's life and the browser's events *)

MaxEvents == 3

IdleHook ==
    /\ hkClient = TRUE
    /\ hkOnLine = TRUE
    /\ hkPhase = "none"
    /\ hkReturned = OnlineStatus(TRUE, FALSE)
    /\ hkQueue = <<>>
    /\ hkEvents = <<>>
    /\ hkReported = TRUE

InitHook ==
    /\ hkClient \in BOOLEAN
    /\ hkOnLine \in BOOLEAN
    /\ hkPhase = "none"
    /\ hkReturned = OnlineStatus(TRUE, FALSE)
    /\ hkQueue = <<>>
    /\ hkEvents = <<>>
    /\ hkReported = TRUE

\* The first render: useState's initializer.
FirstRender ==
    /\ hkPhase = "none"
    /\ hkPhase' = "rendered"
    /\ hkReturned' = OnlineStatus(IF hkClient THEN hkOnLine ELSE TRUE, FALSE)
    /\ UNCHANGED <<hkClient, hkOnLine, hkQueue, hkEvents, hkReported, allButHookVars>>

\* The effect: off the client it returns at once; on it, the listeners are
\* added and the state synced with navigator.onLine.
RunEffect ==
    /\ hkPhase = "rendered"
    /\ hkPhase' = "mounted"
    /\ IF hkClient
       THEN /\ hkQueue' = Append(hkQueue, StatusUpdate("sync", hkOnLine))
            /\ hkReported' = hkOnLine
       ELSE /\ hkQueue' = hkQueue
            /\ hkReported' = TRUE
    /\ UNCHANGED <<hkClient, hkOnLine, hkReturned, hkEvents, allButHookVars>>

\* The browser goes online or offline and fires the event; handleOnline or
\* handleOffline runs if the listeners are there.
BrowserEvent ==
    /\ Len(hkEvents) < MaxEvents
    /\ \E kind \in {"online", "offline"} :
           /\ hkOnLine' = (kind = "online")
           /\ IF hkClient /\ hkPhase = "mounted"
              THEN /\ hkQueue' = Append(hkQueue, StatusUpdate(kind, kind = "online"))
                   /\ hkEvents' = Append(hkEvents, kind)
              ELSE /\ hkOnLine' # hkOnLine
                   /\ UNCHANGED <<hkQueue, hkEvents>>
    /\ UNCHANGED <<hkClient, hkPhase, hkReturned, hkReported, allButHookVars>>

\* React renders the component again with the queued updates applied.
Rerender ==
    /\ hkPhase = "mounted"
    /\ hkQueue # <<>>
    /\ hkReturned' = ApplyUpdates(hkReturned, hkQueue)
    /\ hkQueue' = <<>>
    /\ UNCHANGED <<hkClient, hkOnLine, hkPhase, hkEvents, hkReported, allButHookVars>>

\* The effect's cleanup: the listeners are removed.
Unmount ==
    /\ hkPhase = "mounted"
    /\ hkPhase' = "unmounted"
    /\ hkQueue' = <<>>
    /\ UNCHANGED <<hkClient, hkOnLine, hkReturned, hkEvents, hkReported, allButHookVars>>

NextHook == FirstRender \/ RunEffect \/ BrowserEvent \/ Rerender \/ Unmount

-----------------------------------------------------------------------------
(* The build adapter: its hooks called by the build *)

MaxHookCalls == 2

AdapterConfigs ==
    {[disable |-> d, devOptions |-> dev, additionalManifestEntries |-> extra] :
        d \in BOOLEAN,
        dev \in {[defined |-> FALSE, enabled |-> FALSE], [defined |-> TRUE, enabled |-> FALSE],
                 [defined |-> TRUE, enabled |-> TRUE]},
        extra \in {<<>>, <<[isString |-> TRUE, url |-> TextValue(Chars("/offline")),
                            revision |-> RevisionNull]>>}}

\* Output directories inside and outside the project.
AdapterContexts ==
    {[isProduction |-> p, projectDir |-> ProjectRoot, outputDir |-> o] :
        p \in BOOLEAN, o \in {Chars("/project/.next"), Chars("/elsewhere/.next")}}

AdapterFileSystems ==
    {[manifest |-> [state |-> "missing", json |-> NoBuildManifest],
      static |-> [state |-> "missing", files |-> <<>>],
      public |-> [state |-> "ok", files |-> <<Chars("robots.txt")>>],
      unreadable |-> {}]}

AdapterDisks == {[state |-> "missing", text |-> <<>>, writable |-> w] : w \in BOOLEAN}

IdleAdapter ==
    /\ adConfig = [disable |-> TRUE, devOptions |-> [defined |-> FALSE, enabled |-> FALSE],
                   additionalManifestEntries |-> <<>>]
    /\ adContext = [isProduction |-> FALSE, projectDir |-> <<>>, outputDir |-> <<>>]
    /\ adFs = [manifest |-> [state |-> "missing", json |-> NoBuildManifest],
               static |-> [state |-> "missing", files |-> <<>>],
               public |-> [state |-> "missing", files |-> <<>>], unreadable |-> {}]
    /\ adDisk = [state |-> "missing", text |-> <<>>, writable |-> FALSE]
    /\ adResults = <<>>

InitAdapter ==
    /\ adConfig \in AdapterConfigs
    /\ adContext \in AdapterContexts
    /\ adFs \in AdapterFileSystems
    /\ adDisk \in AdapterDisks
    /\ adResults = <<>>

Called(hook, result, before) ==
    [hook |-> hook, settled |-> result.settled, error |-> result.error, logs |-> result.logs,
     before |-> before]

\* await adapter.onBuildComplete(context)
OnBuildComplete ==
    /\ Len(adResults) < MaxHookCalls
    /\ \E result \in {onBuildComplete(adConfig, adContext, adFs, adDisk, 0)} :
           /\ adResults' = Append(adResults, Called("onBuildComplete", result, adDisk))
           /\ adDisk' = result.disk
    /\ UNCHANGED <<adConfig, adContext, adFs, allButAdapterVars>>

\* await adapter.onHotReload(context)
OnHotReload ==
    /\ Len(adResults) < MaxHookCalls
    /\ \E result \in {onHotReload(adConfig, adContext, adFs, adDisk, 0)} :
           /\ adResults' = Append(adResults, Called("onHotReload", result, adDisk))
           /\ adDisk' = result.disk
    /\ UNCHANGED <<adConfig, adContext, adFs, allButAdapterVars>>

NextAdapter == OnBuildComplete \/ OnHotReload

-----------------------------------------------------------------------------
(* compileServiceWorker, and the compiled worker starting *)

CompileConfigs ==
    {[skipWaiting |-> sw, clientsClaim |-> JsTrue, scope |-> JsString(<<"/">>), fallbacks |-> fb] :
        sw \in {JsTrue, JsFalse},
        fb \in {JsUndefined,
                JsObject(<<Prop(Key("document"), JsString(Chars("/_offline")))>>),
                JsCyclic}}

\* Manifests as generatePrecacheManifest returns them, and one with a url that
\* closes a script element.
CompileManifests ==
    {JsArray(<<>>),
     JsArray(<<PrecacheEntry(Chars("/index.html"), JsString(Chars("abc123")))>>),
     JsArray(<<PrecacheEntry(Chars("/app/a.js"), JsNull),
               PrecacheEntry(Chars("/x</script>"), JsString(Chars("0a1b2c3d")))>>)}

CompileOptions ==
    {[manifest |-> m, mode |-> mode, config |-> c] :
        m \in CompileManifests, mode \in {Chars("production"), Chars("development")},
        c \in CompileConfigs}

WorkerNotStarted == [started |-> FALSE, read |-> <<>>, error |-> ""]

IdleCompile ==
    /\ cmOptions = [manifest |-> JsArray(<<>>), mode |-> <<>>,
                    config |-> [skipWaiting |-> JsFalse, clientsClaim |-> JsFalse,
                                scope |-> JsString(<<>>), fallbacks |-> JsUndefined]]
    /\ cmResult = "none"
    /\ cmDefine = <<>>
    /\ cmWorker = WorkerNotStarted

InitCompile ==
    /\ cmOptions \in CompileOptions
    /\ cmResult = "none"
    /\ cmDefine = <<>>
    /\ cmWorker = WorkerNotStarted

\* await compileServiceWorker(options): the escapes, then esbuild.build,
\* which may fail; any error is caught and reported in the result.
CompileServiceWorker ==
    /\ cmResult = "none"
    /\ LET table == DefineTable(cmOptions.manifest, cmOptions.mode, cmOptions.config)
       IN  \E built \in BOOLEAN :
               IF table.threw \/ ~built
               THEN cmResult' = "failed" /\ cmDefine' = <<>>
               ELSE cmResult' = "success" /\ cmDefine' = table.define
    /\ UNCHANGED <<cmOptions, cmWorker, allButCompileVars>>

\* The browser evaluates the compiled worker.
StartWorker ==
    /\ cmResult = "success"
    /\ ~cmWorker.started
    /\ cmWorker' = ReadGlobals(TemplateReads(Truthy(cmOptions.config.fallbacks)),
                               DefinedNames(cmDefine), <<>>)
    /\ UNCHANGED <<cmOptions, cmResult, cmDefine, allButCompileVars>>

NextCompile == CompileServiceWorker \/ StartWorker

-----------------------------------------------------------------------------
(* Specifications: one per operation, the other operations' state idle *)

IdleEarlier ==
    IdlePath /\ IdleEsc /\ IdleRule /\ IdleMerge /\ IdleRoute /\ IdleGen /\ IdlePwa

IdleLater == IdleScope /\ IdleDefaults /\ IdleSw /\ IdleHook /\ IdleAdapter /\ IdleCompile

IdleAllButScope == IdleEarlier /\ IdleDefaults /\ IdleSw /\ IdleHook /\ IdleAdapter /\ IdleCompile

IdleAllButDefaults == IdleEarlier /\ IdleScope /\ IdleSw /\ IdleHook /\ IdleAdapter /\ IdleCompile

IdleAllButSw == IdleEarlier /\ IdleScope /\ IdleDefaults /\ IdleHook /\ IdleAdapter /\ IdleCompile

IdleAllButHook == IdleEarlier /\ IdleScope /\ IdleDefaults /\ IdleSw /\ IdleAdapter /\ IdleCompile

IdleAllButAdapter == IdleEarlier /\ IdleScope /\ IdleDefaults /\ IdleSw /\ IdleHook /\ IdleCompile

IdleAllButCompile == IdleEarlier /\ IdleScope /\ IdleDefaults /\ IdleSw /\ IdleHook /\ IdleAdapter

InitSpecPath == InitPath /\ IdleEsc /\ IdleRule /\ IdleMerge /\ IdleRoute
    /\ IdleGen /\ IdlePwa /\ IdleLater

SpecPath == InitSpecPath /\ [][NextPath]_vars

InitSpecEsc == InitEsc /\ IdlePath /\ IdleRule /\ IdleMerge /\ IdleRoute
    /\ IdleGen /\ IdlePwa /\ IdleLater

SpecEsc == InitSpecEsc /\ [][NextEsc]_vars

InitSpecRule == InitRule /\ IdlePath /\ IdleEsc /\ IdleMerge /\ IdleRoute
    /\ IdleGen /\ IdlePwa /\ IdleLater

SpecRule == InitSpecRule /\ [][NextRule]_vars

InitSpecMerge == InitMerge /\ IdlePath /\ IdleEsc /\ IdleRule /\ IdleRoute
    /\ IdleGen /\ IdlePwa /\ IdleLater

SpecMerge == InitSpecMerge /\ [][NextMerge]_vars

InitSpecRoute == InitRoute /\ IdlePath /\ IdleEsc /\ IdleRule /\ IdleMerge
    /\ IdleGen /\ IdlePwa /\ IdleLater

SpecRoute == InitSpecRoute /\ [][NextRoute]_vars

InitSpecGen == InitGen /\ IdlePath /\ IdleEsc /\ IdleRule /\ IdleMerge /\ IdleRoute
    /\ IdlePwa /\ IdleLater

SpecGen == InitSpecGen /\ [][NextGen]_vars

InitSpecPwa == InitPwa /\ IdlePath /\ IdleEsc /\ IdleRule /\ IdleMerge /\ IdleRoute
    /\ IdleGen /\ IdleLater

SpecPwa == InitSpecPwa /\ [][NextPwa]_vars

InitSpecScope == InitScope /\ IdleAllButScope

SpecScope == InitSpecScope /\ [][NextScope]_vars

InitSpecDefaults == InitDefaults /\ IdleAllButDefaults

SpecDefaults == InitSpecDefaults /\ [][NextDefaults]_vars

InitSpecInstall == InitInstall /\ IdleAllButSw

SpecInstall == InitSpecInstall /\ [][NextInstall]_vars

InitSpecCatch == InitCatch /\ IdleAllButSw

SpecCatch == InitSpecCatch /\ [][NextCatch]_vars

InitSpecHook == InitHook /\ IdleAllButHook

SpecHook == InitSpecHook /\ [][NextHook]_vars

InitSpecAdapter == InitAdapter /\ IdleAllButAdapter

SpecAdapter == InitSpecAdapter /\ [][NextAdapter]_vars

InitSpecCompile == InitCompile /\ IdleAllButCompile

SpecCompile == InitSpecCompile /\ [][NextCompile]_vars

-----------------------------------------------------------------------------
(* Properties of mergeRuntimeCaching (SpecMerge) *)

\* The identity of a rule as the specification words it: the string itself,
\* the source text of a compiled pattern, the text of a predicate function.
PatternIdentity(rule) ==
    LET pattern == Get(rule, Key("urlPattern"))
    IN  IF pattern.t = "regexp" THEN RegExpSource(pattern) ELSE pattern.s

Overridden(d) == \E i \in 1..Len(customIn) : PatternIdentity(customIn[i]) = PatternIdentity(d)

NoRepeatedIdentity(rules) ==
    \A i, j \in 1..Len(rules) : i # j => PatternIdentity(rules[i]) # PatternIdentity(rules[j])

\* C1: the merged list has length |C| + the number of defaults whose identity
\* equals no custom rule's identity; its first |C| elements are the custom
\* rules in their order, and the rest are the surviving defaults in the
\* defaults' relative order.
C1_CustomFirstThenSurvivingDefaults ==
    merged.done =>
        LET n == Len(customIn)
            out == merged.rules
        IN  /\ Len(out) = n + Cardinality({j \in 1..Len(defaultsIn) : ~Overridden(defaultsIn[j])})
            /\ SubSeq(out, 1, n) = customIn
            /\ SubSeq(out, n + 1, Len(out)) = SelectSeq(defaultsIn, LAMBDA d : ~Overridden(d))

\* Two custom rules, one of them overriding one of the thirteen defaults.
C1_Witness ==
    /\ merged.done
    /\ Len(customIn) = 2
    /\ defaultsIn = getDefaultRuntimeCaching
    /\ Len(merged.rules) = 14

\* C2 as stated: whatever the two lists (a custom list or a defaults list
\* that repeats a pattern included), no two elements of the merged list
\* share a pattern identity.
C2_NoSharedIdentity == merged.done => NoRepeatedIdentity(merged.rules)

\* C2 amended: when neither the custom list nor the defaults list repeats a
\* pattern identity within itself, no two elements of the merged list share
\* one.
C2_NoSharedIdentityWhenInputsDistinct ==
    (merged.done /\ NoRepeatedIdentity(customIn) /\ NoRepeatedIdentity(defaultsIn))
        => NoRepeatedIdentity(merged.rules)

\* Two distinct custom rules, one with the identity of a default, merged.
C2_Witness ==
    /\ merged.done
    /\ Len(customIn) = 2
    /\ NoRepeatedIdentity(customIn)
    /\ NoRepeatedIdentity(defaultsIn)
    /\ \E j \in 1..Len(defaultsIn) : Overridden(defaultsIn[j])

\* The default at index j is absent from the merged list's defaults part.
Omitted(j) ==
    \A k \in (Len(customIn) + 1)..Len(merged.rules) : merged.rules[k] # defaultsIn[j]

ApiOverride == Rule(JsString(Pattern_Api), "CacheFirst", JsUndefined, <<CacheName("my-api")>>)
ApiRegExp ==
    Rule(JsRegExp(<<"^", BSL, "/", "api", BSL, "/", ".", "*">>), "CacheFirst", JsUndefined, <<>>)

\* C3: a default is omitted exactly when some custom rule has its pattern
\* identity, whatever the handlers, methods and options; the custom string
\* rule '^/api/.*' with CacheFirst removes the default '^/api/.*' rule and
\* leaves the length of the defaults, the custom RegExp /^\/api\/.*/ removes
\* nothing.
C3_OmittedIffSameIdentity ==
    merged.done =>
        /\ \A j \in 1..Len(defaultsIn) : Omitted(j) <=> Overridden(defaultsIn[j])
        /\ (customIn = <<ApiOverride>> /\ defaultsIn = getDefaultRuntimeCaching)
               => (Omitted(9) /\ Len(merged.rules) = Len(getDefaultRuntimeCaching))
        /\ (customIn = <<ApiRegExp>> /\ defaultsIn = getDefaultRuntimeCaching)
               => (Len(merged.rules) = Len(getDefaultRuntimeCaching) + 1
                   /\ \A j \in 1..Len(defaultsIn) : ~Omitted(j))

\* The custom '^/api/.*' string rule merged with the thirteen defaults.
C3_Witness ==
    /\ merged.done
    /\ customIn = <<ApiOverride>>
    /\ defaultsIn = getDefaultRuntimeCaching
    /\ Len(merged.rules) = 13
    /\ merged.rules[1] = ApiOverride

-----------------------------------------------------------------------------
(* Properties of the default rule list (SpecRoute) *)

\* C4: each default rule is the first matching rule of at least one request,
\* so none comes after earlier rules that together match all it matches;
\* stated once a request has been dispatched against the list.
C4_EveryRuleFirstForSomeRequest ==
    matched.done =>
        \A i \in 1..Len(getDefaultRuntimeCaching) :
            \E r \in Requests : FirstMatch(getDefaultRuntimeCaching, r) = i

-----------------------------------------------------------------------------
(* Properties of sanitizePath (SpecPath) *)

\* C5: sanitizePath applied to its own output returns that output.
C5_Idempotent == pathAgain.done => pathAgain.str = pathOut.str

\* C6: the output has no "..", no NUL, no backslash, no doubled "/", and no
\* "/" at either end; a non-string input gives the empty string.
C6_OutputClean ==
    pathOut.done =>
        /\ ~Includes(pathOut.str, <<".", ".">>)
        /\ ~Includes(pathOut.str, <<NUL>>)
        /\ ~Includes(pathOut.str, <<BSL>>)
        /\ ~Includes(pathOut.str, <<"/", "/">>)
        /\ ~StartsWith(pathOut.str, <<"/">>)
        /\ ~EndsWith(pathOut.str, <<"/">>)
        /\ (pathIn.type # "string" => pathOut.str = <<>>)

\* A path with "..", a backslash and a leading slash, sanitized to a
\* non-empty result.
C6_Witness ==
    /\ pathOut.done
    /\ pathIn.type = "string"
    /\ Includes(pathIn.str, <<".", ".">>)
    /\ Includes(pathIn.str, <<BSL>>)
    /\ StartsWith(pathIn.str, <<"/">>)
    /\ pathOut.str # <<>>

-----------------------------------------------------------------------------
(* Properties of escapeForServiceWorker (SpecEsc) *)

\* A value made only of JSON-representable data.
RECURSIVE JsonSafe(_)
JsonSafe(v) ==
    \/ v.t \in {"null", "true", "false", "number", "string"}
    \/ v.t = "array" /\ \A i \in 1..Len(v.items) : JsonSafe(v.items[i])
    \/ v.t = "object" /\ \A i \in 1..Len(v.items) : JsonSafe(v.items[i].val)

\* C7: for a value of JSON-representable data, JSON.parse of the escaped
\* text succeeds and gives the value back.
C7_RoundTrip ==
    (escParsed.done /\ JsonSafe(escIn)) => (escParsed.ok /\ escParsed.val = escIn)

\* The number of consecutive backslashes that end just before position i.
RECURSIVE BackslashesBefore(_, _)
BackslashesBefore(s, i) ==
    IF i > 1 /\ s[i - 1] = BSL THEN 1 + BackslashesBefore(s, i - 1) ELSE 0

\* C8: the returned text has no "</script>" in any letter case, no "<!--",
\* no raw U+2028 or U+2029, and every backtick and every "${" in it follows
\* an odd number of consecutive backslashes.
C8_OutputSafe ==
    (escOut.done /\ ~escOut.threw) =>
        LET o == escOut.str
        IN  /\ \A i \in 1..Len(o) : ~MatchAtIgnoreCase(o, i, Text_ScriptClose)
            /\ ~Includes(o, Text_CommentOpen)
            /\ \A i \in 1..Len(o) : o[i] \notin {LS, PS}
            /\ \A i \in 1..Len(o) : o[i] = BTK => BackslashesBefore(o, i) % 2 = 1
            /\ \A i \in 1..Len(o) :
                   MatchAt(o, i, <<"$", "{">>) => BackslashesBefore(o, i) % 2 = 1

\* A string with a backslash right before a backtick, and a script close
\* tag, escaped.
C8_Witness ==
    /\ escOut.done
    /\ escIn.t = "string"
    /\ Includes(escIn.s, <<BSL, BTK>>)
    /\ \E i \in 1..Len(escIn.s) : MatchAtIgnoreCase(escIn.s, i, Text_ScriptClose)
    /\ Includes(escOut.str, <<BSL, BTK>>)

\* C9: the call never throws; undefined gives 'undefined', a function or a
\* symbol 'null', a bigint its decimal digits in double quotes, and a value
\* whose JSON serialization fails 'null'.
C9_NeverThrows ==
    escOut.done =>
        /\ ~escOut.threw
        /\ (escIn.t = "undefined" => escOut.str = Text_undefined)
        /\ (escIn.t \in {"function", "symbol"} => escOut.str = Text_null)
        /\ (escIn.t = "bigint" => escOut.str = <<"\"">> \o IntToText(escIn.n) \o <<"\"">>)
        /\ ((escIn.t \notin {"undefined", "function", "symbol", "bigint"}
                /\ JSONstringify(escIn).threw) => escOut.str = Text_null)

\* An object that holds an object containing itself, escaped to 'null'.
C9_Witness ==
    /\ escOut.done
    /\ escIn = JsObject(<<Prop(<<"k">>, JsCyclic)>>)
    /\ escOut.str = Text_null

-----------------------------------------------------------------------------
(* Properties of sanitizeRuntimeCachingRule (SpecRule) *)

\* C10: the result is null or an object with keys among urlPattern, handler
\* and options, options keys among cacheName, expiration and
\* networkTimeoutSeconds, expiration keys among maxEntries and
\* maxAgeSeconds, and a handler that is one of the five strategy names.
C10_OnlyAllowListedKeys ==
    ruleOut.done =>
        \/ ruleOut.val = JsNull
        \/ LET out == ruleOut.val
               options == Get(out, Key("options"))
               expiration == Get(options, Key("expiration"))
           IN  /\ out.t = "object"
               /\ Keys(out) \subseteq {Key("urlPattern"), Key("handler"), Key("options")}
               /\ options.t \in {"undefined", "object"}
               /\ options.t = "object" =>
                      /\ Keys(options) \subseteq
                             {Key("cacheName"), Key("expiration"), Key("networkTimeoutSeconds")}
                      /\ expiration.t \in {"undefined", "object"}
                      /\ expiration.t = "object" =>
                             Keys(expiration) \subseteq {Key("maxEntries"), Key("maxAgeSeconds")}
               /\ Get(out, Key("handler")) \in
                      { JsString(<<h>>) : h \in {"CacheFirst", "CacheOnly", "NetworkFirst",
                                                  "NetworkOnly", "StaleWhileRevalidate"} }

\* A rule with keys outside the allow-list at all three levels, sanitized to
\* a rule that keeps options and expiration.
C10_Witness ==
    /\ ruleOut.done
    /\ ruleOut.val # JsNull
    /\ Key("method") \in Keys(ruleIn)
    /\ Key("plugins") \in Keys(Get(ruleIn, Key("options")))
    /\ Key("purgeOnQuotaError") \in Keys(Get(Get(ruleIn, Key("options")), Key("expiration")))
    /\ Get(Get(ruleOut.val, Key("options")), Key("expiration")).t = "object"

\* The candidate passes the two mandatory checks: a usable urlPattern and an
\* allow-listed handler.
MandatoryFieldsPass(rule) ==
    LET pattern == Get(rule, Key("urlPattern"))
        handler == Get(rule, Key("handler"))
    IN  /\ rule.t = "object"
        /\ \/ pattern.t = "regexp"
           \/ pattern.t = "string" /\ pattern.s # <<>> /\ ~Includes(pattern.s, <<NUL>>)
        /\ handler.t = "string"
        /\ \E i \in 1..Len(ALLOWED_HANDLERS) : handler.s = <<ALLOWED_HANDLERS[i]>>

\* C11: a RegExp urlPattern comes back as the pattern's source text; a string
\* urlPattern is accepted only if it is non-empty and has no NUL; a
\* urlPattern of any other type gives null.
C11_UrlPatternSerialized ==
    ruleOut.done =>
        LET pattern == Get(ruleIn, Key("urlPattern"))
            out == ruleOut.val
        IN  /\ (MandatoryFieldsPass(ruleIn) /\ pattern.t = "regexp")
                   => (out # JsNull
                       /\ Get(out, Key("urlPattern")) = JsString(RegExpSource(pattern)))
            /\ (pattern.t = "string" /\ out # JsNull)
                   => (pattern.s # <<>> /\ ~Includes(pattern.s, <<NUL>>)
                       /\ Get(out, Key("urlPattern")) = pattern)
            /\ pattern.t \notin {"string", "regexp"} => out = JsNull

\* The optional fields of the candidate, as the specification constrains
\* them.
ValidCacheName(v) ==
    /\ v.t = "string"
    /\ Len(v.s) \in 1..100
    /\ \A i \in 1..Len(v.s) : v.s[i] \in {"a", "b", "Z", "0", "9", "_", "-"}
ValidInteger(v, max) == v.t = "number" /\ v.n \in 1..max

\* What must be copied for a field: the value when it is valid, nothing
\* (undefined) otherwise.
Survivor(v, valid) == IF valid THEN v ELSE JsUndefined

\* C12: each optional field is copied exactly when it passes its own
\* constraint; an invalid one neither nulls the rule nor removes a valid
\* sibling; expiration and options are left out when nothing in them
\* survives.
C12_OptionalFieldsIndependent ==
    (ruleOut.done /\ MandatoryFieldsPass(ruleIn)) =>
        LET inOptions == Get(ruleIn, Key("options"))
            inExpiration == Get(inOptions, Key("expiration"))
            cacheName == Get(inOptions, Key("cacheName"))
            maxEntries == Get(inExpiration, Key("maxEntries"))
            maxAgeSeconds == Get(inExpiration, Key("maxAgeSeconds"))
            timeout == Get(inOptions, Key("networkTimeoutSeconds"))
            out == ruleOut.val
            outOptions == Get(out, Key("options"))
            outExpiration == Get(outOptions, Key("expiration"))
            anyExpiration ==
                ValidInteger(maxEntries, 10000) \/ ValidInteger(maxAgeSeconds, 31536000)
            anyOption == ValidCacheName(cacheName) \/ anyExpiration \/ ValidInteger(timeout, 300)
        IN  /\ out # JsNull
            /\ Get(outOptions, Key("cacheName")) = Survivor(cacheName, ValidCacheName(cacheName))
            /\ Get(outExpiration, Key("maxEntries"))
                   = Survivor(maxEntries, ValidInteger(maxEntries, 10000))
            /\ Get(outExpiration, Key("maxAgeSeconds"))
                   = Survivor(maxAgeSeconds, ValidInteger(maxAgeSeconds, 31536000))
            /\ Get(outOptions, Key("networkTimeoutSeconds"))
                   = Survivor(timeout, ValidInteger(timeout, 300))
            /\ (Key("expiration") \in Keys(outOptions)) <=> anyExpiration
            /\ (Key("options") \in Keys(out)) <=> anyOption

\* A rule whose maxEntries and networkTimeoutSeconds are out of range while
\* its cacheName and maxAgeSeconds are valid: the two valid fields are kept.
C12_Witness ==
    /\ ruleOut.done
    /\ MandatoryFieldsPass(ruleIn)
    /\ Get(Get(Get(ruleIn, Key("options")), Key("expiration")), Key("maxEntries")) = JsNumber(10001)
    /\ Get(Get(ruleIn, Key("options")), Key("networkTimeoutSeconds")) = JsNumber(301)
    /\ Get(Get(ruleOut.val, Key("options")), Key("cacheName")) = JsString(<<"a", "-", "9">>)
    /\ Get(Get(Get(ruleOut.val, Key("options")), Key("expiration")), Key("maxAgeSeconds"))
           = JsNumber(60)

-----------------------------------------------------------------------------
(* Properties of generatePrecacheManifest (SpecGen) *)

GaveManifest(run) == run.done /\ ~run.threw

NothingYet == Progress(<<>>, {}, <<>>)

\* What each candidate gives when it is processed alone, in the order the
\* candidates are processed: the build assets (those of build-manifest.json,
\* then the listed static files), the public files, the additional entries.
BuildCandidates(options, fs) ==
    InsertionOrder((IF readBuildManifest(fs, options.buildDir).ok
                    THEN extractAssetsFromManifest(fs.manifest.json) ELSE <<>>)
                       \o getStaticBuildFiles(fs, options.buildDir, options.projectRoot), {})

PublicCandidates(options, fs) ==
    getPublicFiles(fs, options.publicDir, options.projectRoot, options.publicExcludes)

CandidateEntries(options, fs, now) ==
    LET build == BuildCandidates(options, fs)
        public == PublicCandidates(options, fs)
        extra == options.additionalManifestEntries
    IN  Concat([i \in 1..Len(build) |->
                   ProcessBuildAsset(build[i], NothingYet, options, fs, now).entries])
        \o Concat([i \in 1..Len(public) |->
                      ProcessPublicFile(public[i], NothingYet, options, fs, now).entries])
        \o Concat([i \in 1..Len(extra) |->
                      ProcessAdditionalEntry(extra[i], NothingYet, options, fs, now).entries])

\* The entries whose url no earlier entry has.
RECURSIVE FirstOfEachUrl(_, _)
FirstOfEachUrl(entries, seen) ==
    IF entries = <<>> THEN <<>>
    ELSE IF Head(entries).url \in seen THEN FirstOfEachUrl(Tail(entries), seen)
    ELSE <<Head(entries)>> \o FirstOfEachUrl(Tail(entries), seen \cup {Head(entries).url})

\* Which candidate an entry was made of, and its url.
Origins(entries) ==
    [i \in 1..Len(entries) |->
        [url |-> entries[i].url, from |-> entries[i].from, of |-> entries[i].of]]

\* C13: a returned manifest never holds two entries with the same final
\* url, whichever of the three sources they come from, and the entry kept
\* for a url is the one of the first candidate processed that has it.
C13_NoTwoEntriesWithOneUrl ==
    GaveManifest(genFirst) =>
        /\ \A i, j \in 1..Len(genFirst.entries) :
               i # j => genFirst.entries[i].url # genFirst.entries[j].url
        /\ Origins(genFirst.entries)
               = Origins(FirstOfEachUrl(CandidateEntries(genOptions, genFs, 0), {}))

\* A run in which a public file and an additional entry each had the url of
\* an entry pushed before them.
C13_Witness ==
    /\ GaveManifest(genFirst)
    /\ LET candidates == CandidateEntries(genOptions, genFs, 0)
       IN  /\ \E i, j \in 1..Len(candidates) :
                  /\ i < j /\ candidates[i].url = candidates[j].url
                  /\ candidates[i].from = "build" /\ candidates[j].from = "public"
           /\ \E i, j \in 1..Len(candidates) :
                  /\ i < j /\ candidates[i].url = candidates[j].url
                  /\ candidates[j].from = "extra"

\* The build directory holds static/chunks/abcdef1234.js and no readable
\* build-manifest.json, the public directory holds robots.txt, basePath is
\* "/app", nothing is excluded, rewritten or added, every file can be read.
EndToEndScenario ==
    /\ genOptions = OptionsOf(Chars("/project/.next"), Chars("/project/public"), Chars("/app"),
                              <<>>, <<>>, <<>>, <<>>)
    /\ genFs.manifest.state # "ok"
    /\ genFs.static = [state |-> "ok", files |-> <<Chars("chunks/abcdef1234.js")>>]
    /\ genFs.public = [state |-> "ok", files |-> <<Chars("robots.txt")>>]
    /\ genFs.unreadable = {}

\* C14: in the end-to-end scenario the manifest is exactly the entry
\* {url: "/app/_next/static/chunks/abcdef1234.js", revision: null} followed
\* by the entry {url: "/app/robots.txt", revision: 8 hex characters}.
C14_EndToEnd ==
    EndToEndScenario /\ genFirst.done =>
        /\ ~genFirst.threw
        /\ Len(genFirst.entries) = 2
        /\ genFirst.entries[1].url = Chars("/app/_next/static/chunks/abcdef1234.js")
        /\ genFirst.entries[1].revision = RevisionNull
        /\ genFirst.entries[2].url = Chars("/app/robots.txt")
        /\ genFirst.entries[2].revision.kind = "md5hex8"

\* The filename of a path: what follows its last "/".
Basename(path) ==
    LET segments == SegmentsFrom(path, 1, <<>>) IN segments[Len(segments)]

\* The filename embeds a content hash: 8 or more hex digits between two
\* dots right before the extension, or 8 or more hex digits and a dash.
FilenameEmbedsHash(path) ==
    MatchesHashPattern(Basename(path)) \/ MatchesChunkHashPattern(Basename(path))

\* The file an entry of the build or public phase stands for.
FileOf(entry) ==
    IF entry.from = "build"
    THEN Join2(genOptions.buildDir, WithoutNextPrefix(entry.of))
    ELSE Join2(genOptions.publicDir, Tail(entry.of))

\* C15: a build asset's entry has revision null exactly when the asset's
\* filename embeds a content hash, whatever basePath, the directories or the
\* rewrite prefixes are; every other build asset and every public file has
\* the first 8 hex characters of the MD5 of the file's bytes (the file being
\* readable).
C15_RevisionByFilenameOnly ==
    GaveManifest(genFirst) =>
        \A i \in 1..Len(genFirst.entries) :
            LET entry == genFirst.entries[i]
                hashed ==
                    FileOf(entry) \notin genFs.unreadable
                        => entry.revision = Md5Hex8(FileBytes(FileOf(entry)))
            IN  /\ entry.from = "build" =>
                       /\ entry.revision = RevisionNull <=> FilenameEmbedsHash(entry.of)
                       /\ ~FilenameEmbedsHash(entry.of) => hashed
                /\ entry.from = "public" => hashed

\* The directory lies within the project root: it is the root or below it.
LiesWithinRoot(dir) == isPathWithinProject_BySegments(dir, genOptions.projectRoot)

\* C16: when buildDir or publicDir lies outside projectRoot (a sibling such
\* as "/project-evil" of "/project" is outside) the call throws its security
\* error, having read no file and returning no manifest; when both lie
\* within the root it does not throw.
C16_OutsideRootIsFatal ==
    genFirst.done =>
        IF LiesWithinRoot(genOptions.buildDir) /\ LiesWithinRoot(genOptions.publicDir)
        THEN ~genFirst.threw
        ELSE genFirst.threw /\ genFirst.reads = <<>> /\ genFirst.entries = <<>>

\* The manifest as the caller gets it: urls and revisions, in order.
Published(entries) ==
    [i \in 1..Len(entries) |-> [url |-> entries[i].url, revision |-> entries[i].revision]]

\* C17: a second run with the same options over the same unchanged file
\* system returns the manifest the first run returned (same urls, same
\* revisions, same order), also when a candidate file cannot be read.
C17_SecondRunAgrees ==
    genSecond.done =>
        /\ genSecond.threw = genFirst.threw
        /\ Published(genSecond.entries) = Published(genFirst.entries)

ContainmentChecksPass ==
    /\ isPathWithinProject(genOptions.buildDir, genOptions.projectRoot)
    /\ isPathWithinProject(genOptions.publicDir, genOptions.projectRoot)

\* The entries made of the candidate file whose read failed.
FallbackEntries(run, filePath) ==
    {i \in 1..Len(run.entries) :
        /\ run.entries[i].from \in {"build", "public"}
        /\ FileOf(run.entries[i]) = filePath
        /\ run.entries[i].revision = Md5Hex8(TimeBytes(0))}

\* C18: once both containment checks pass the call returns a manifest,
\* whatever is missing, unparsable, unlistable or unreadable, and every
\* candidate file whose read failed has an entry with the 8-hex fallback
\* revision.
C18_AlwaysReturnsAManifest ==
    genFirst.done /\ ContainmentChecksPass =>
        /\ ~genFirst.threw
        /\ \A k \in 2..Len(genFirst.reads) :
               genFirst.reads[k] \in genFs.unreadable
                   => FallbackEntries(genFirst, genFirst.reads[k]) # {}

\* A run with build-manifest.json unparsable, the static subtree not
\* listable and the one public file unreadable.
C18_Witness ==
    /\ GaveManifest(genFirst)
    /\ genFs.manifest.state = "unparsable"
    /\ genFs.static.state = "fails"
    /\ Chars("/project/public/robots.txt") \in genFs.unreadable
    /\ FallbackEntries(genFirst, Chars("/project/public/robots.txt")) # {}

PhaseRank(from) == IF from = "build" THEN 1 ELSE IF from = "public" THEN 2 ELSE 3

\* Where a candidate first stands in its phase's enumeration.
FirstIndex(candidates, candidate) ==
    CHOOSE i \in 1..Len(candidates) :
        candidates[i] = candidate /\ \A j \in 1..(i - 1) : candidates[j] # candidate

\* Where each entry's candidate stands in the enumeration of its phase.
EnumerationIndexes(entries) ==
    LET build == BuildCandidates(genOptions, genFs)
        public == PublicCandidates(genOptions, genFs)
        extra == [i \in 1..Len(genOptions.additionalManifestEntries) |->
                     genOptions.additionalManifestEntries[i].url.str]
    IN  [i \in 1..Len(entries) |->
            FirstIndex(IF entries[i].from = "build" THEN build
                       ELSE IF entries[i].from = "public" THEN public ELSE extra,
                       entries[i].of)]

\* The files of the entries whose revision was taken by a read, in the
\* order of the entries.
FilesRead(entries) ==
    LET read == SelectSeq(entries, LAMBDA e : e.from # "extra" /\ e.revision # RevisionNull)
    IN  [i \in 1..Len(read) |-> FileOf(read[i])]

\* C19: in the returned list the build-asset entries come first, then the
\* public-file entries, then the additional entries, each phase in the order
\* its candidates were enumerated; the reads are made one at a time in that
\* same order, so no completion order can change the list.
C19_PhasesInEnumerationOrder ==
    GaveManifest(genFirst) =>
        LET entries == genFirst.entries
            index == EnumerationIndexes(entries)
        IN  /\ \A i, j \in 1..Len(entries) :
                   i < j =>
                       /\ PhaseRank(entries[i].from) <= PhaseRank(entries[j].from)
                       /\ entries[i].from = entries[j].from => index[i] < index[j]
            /\ Tail(genFirst.reads) = FilesRead(entries)

\* A run that returned two entries or more of each phase.
C19_Witness ==
    /\ GaveManifest(genFirst)
    /\ \A from \in {"build", "public", "extra"} :
           \E i, j \in 1..Len(genFirst.entries) :
               i < j /\ genFirst.entries[i].from = from /\ genFirst.entries[j].from = from

-----------------------------------------------------------------------------
(* Properties of writePWAManifest and readPWAManifest (SpecPwa) *)

\* The path is outside the project root or holds a traversal sequence.
GateCloses ==
    \/ ~isPathWithinProject_BySegments(pwaArgs.path, pwaArgs.projectRoot)
    \/ hasPathTraversal(TextValue(pwaArgs.path))

SecurityErrors ==
    {"Output path is outside project root - security violation",
     "Output path contains path traversal - security violation",
     "Manifest path is outside project root - security violation"}

\* C20: writePWAManifest and readPWAManifest have the same gate: each throws
\* a security error without touching the file when the path is outside the
\* project root or holds a traversal sequence; past the gate the write
\* leaves the manifest on disk as JSON or throws a write error, and the read
\* returns the parsed content, or null for a missing or invalid file.
C20_SameSecurityGate ==
    /\ pwaWrite.done =>
           IF GateCloses
           THEN pwaWrite.threw /\ pwaWrite.error \in SecurityErrors /\ ~pwaWrite.touched
           ELSE \/ pwaWrite.threw /\ pwaWrite.error = "Failed to write PWA manifest"
                \/ ~pwaWrite.threw /\ pwaDisk.state = "file"
                       /\ JSONparse(pwaDisk.text) = [ok |-> TRUE, val |-> pwaArgs.manifest]
    /\ pwaRead.done =>
           IF GateCloses
           THEN pwaRead.threw /\ pwaRead.error \in SecurityErrors /\ ~pwaRead.touched
           ELSE /\ ~pwaRead.threw
                /\ ~pwaWrite.done =>
                       IF pwaDisk.state = "file" /\ JSONparse(pwaDisk.text).ok
                       THEN pwaRead.found /\ pwaRead.val = JSONparse(pwaDisk.text).val
                       ELSE ~pwaRead.found /\ pwaRead.val = JsNull

-----------------------------------------------------------------------------
(* Properties of sanitizePath with hasPathTraversal (SpecPath) *)

\* C30: what sanitizePath returns is never flagged by hasPathTraversal, for
\* every input, those with percent-encoded dots included.
C30_SanitizedIsNeverFlagged ==
    pathOut.done => ~hasPathTraversal(TextValue(pathOut.str))

-----------------------------------------------------------------------------
(* Properties of applyURLPrefixModifications within the generator (SpecGen) *)

\* The url of an entry before the rewrite table is applied to it.
UrlBeforeRewrite(entry) ==
    IF entry.from = "build"
    THEN WithBasePath(genOptions.basePath,
                      IF StartsWith(entry.of, <<"/">>) THEN entry.of ELSE <<"/">> \o entry.of)
    ELSE IF entry.from = "public" \/ StartsWith(entry.of, <<"/">>)
    THEN WithBasePath(genOptions.basePath, entry.of)
    ELSE entry.of

\* The table entries whose original prefix the url starts with.
Matching(url) ==
    {k \in 1..Len(genOptions.modifyURLPrefix) :
        StartsWith(url, genOptions.modifyURLPrefix[k].from)}

\* C27: the url of every entry is its url before rewriting with the prefix
\* of the first matching table entry replaced, once, by that entry's new
\* prefix, or that url unchanged when no table entry matches.
C27_FirstMatchingPrefixOnly ==
    GaveManifest(genFirst) =>
        \A i \in 1..Len(genFirst.entries) :
            LET before == UrlBeforeRewrite(genFirst.entries[i])
                hits == Matching(before)
            IN  IF hits = {} THEN genFirst.entries[i].url = before
                ELSE LET first == CHOOSE k \in hits : \A l \in hits : k <= l
                         rule == genOptions.modifyURLPrefix[first]
                     IN  genFirst.entries[i].url
                             = rule.to \o SubSeq(before, Len(rule.from) + 1, Len(before))

\* An entry whose url matched two table entries and, once rewritten, still
\* starts with an original prefix of the table; and an entry no table entry
\* matched, the table not being empty.
C27_Witness ==
    /\ GaveManifest(genFirst)
    /\ genOptions.modifyURLPrefix # <<>>
    /\ \E i \in 1..Len(genFirst.entries) :
           /\ Cardinality(Matching(UrlBeforeRewrite(genFirst.entries[i]))) = 2
           /\ Matching(genFirst.entries[i].url) # {}
    /\ \E i \in 1..Len(genFirst.entries) : Matching(UrlBeforeRewrite(genFirst.entries[i])) = {}

\* C28: an asset path of build-manifest.json that holds a traversal sequence
\* gives no entry, so no returned url holds "..", and no file outside the
\* build directory is read for the revision of a build asset.
C28_TraversalAssetsDropped ==
    GaveManifest(genFirst) =>
        \A i \in 1..Len(genFirst.entries) :
            LET entry == genFirst.entries[i]
            IN  /\ ~Includes(entry.url, Chars(".."))
                /\ entry.from = "build" =>
                       /\ ~hasPathTraversal(TextValue(entry.of))
                       /\ isPathWithinProject_BySegments(FileOf(entry), genOptions.buildDir)

-----------------------------------------------------------------------------
(* Properties of validateScope (SpecScope) *)

\* s begins with the characters of t.
HasPrefix(s, t) == Len(t) <= Len(s) /\ \A i \in 1..Len(t) : s[i] = t[i]

\* s with "/" after it unless "/" is its last character.
SlashEnded(s) == IF s # <<>> /\ s[Len(s)] = "/" THEN s ELSE Append(s, "/")

\* C21: validateScope returns true exactly when the scope is a non-empty
\* string that starts with "/", holds none of "..", NUL, "?", "#" and the
\* backslash and, a basePath being given, the basePath is a string and the
\* scope, ended with "/", begins with the basePath, ended with "/"; it
\* returns false otherwise.
C21_ValidScopeExactly ==
    scopeOut.done =>
        (scopeOut.val <=>
            LET scope == scopeIn.scope.str
                basePath == scopeIn.basePath
            IN  /\ scopeIn.scope.type = "string"
                /\ scope # <<>>
                /\ scope[1] = "/"
                /\ \A i \in 1..Len(scope) : scope[i] \notin {NUL, "?", "#", BSL}
                /\ \A i \in 1..(Len(scope) - 1) : ~(scope[i] = "." /\ scope[i + 1] = ".")
                /\ basePath.type # "undefined" =>
                       /\ basePath.type = "string"
                       /\ HasPrefix(SlashEnded(scope), SlashEnded(basePath.str)))

\* The scope "/aa" refused for the basePath "/a", which is a prefix of its
\* text but not of its path.
C21_Witness ==
    /\ scopeOut.done
    /\ scopeIn.scope = TextValue(<<"/", "a", "a">>)
    /\ scopeIn.basePath = TextValue(<<"/", "a">>)
    /\ ~scopeOut.val

-----------------------------------------------------------------------------
(* Properties of getDefaultRuntimeCaching (SpecDefaults) *)

DefaultCacheNames ==
    <<"google-fonts-stylesheets", "google-fonts-webfonts", "static-assets", "images",
      "audio", "video", "js", "css", "apis", "pages", "cross-origin", "static-files",
      "others">>

CacheNamesOf(rules) ==
    [i \in 1..Len(rules) |-> Get(Get(rules[i], Key("options")), Key("cacheName"))]

\* The addresses a call handed out: its array and its rule objects.
AddressesOf(call) == {call.list} \cup {call.rules[i] : i \in 1..Len(call.rules)}

    /\ ReadList(dfHeap, dfCalls[2].list) = dfCalls[2].returned

-----------------------------------------------------------------------------
(* Properties of the service worker's install step (SpecInstall) *)

ConfiguredUrls == {swFallbacks.urls[category] : category \in Categories} \ {""}

InstallCompleted == swFallbacks.configured /\ swInstall.phase = "done"

AddedUrls == {swInstall.urls[i] : i \in (1..Len(swInstall.urls)) \ (swInstall.pending \cup swInstall.failed)}

    /\ ConfiguredUrls \ swCache # {}

-----------------------------------------------------------------------------
(* Properties of the catch handler (SpecCatch) *)

\* The categories of the request whose fallback can be served.
Servable ==
    {i \in 1..Len(FallbackOrder) :
        /\ Belongs(swResponse.request, FallbackOrder[i])
        /\ HandlerTable[FallbackOrder[i]] # ""
        /\ HandlerTable[FallbackOrder[i]] \in (swCache \cup swOther) \ swResponse.failing}

\* C26: the catch handler never throws; it serves one fallback, that of the
\* first category in the order document, image, font, audio, video to which
\* the request belongs and whose fallback is configured and found in the
\* cache, and answers with an error response when there is none (also
\* when the cache lookup fails).
C26_OneFallbackOfOwnCategory ==
    swResponse.kind # "none" =>
        /\ swResponse.kind # "threw"
        /\ swResponse.kind = "error" <=> Servable = {}
        /\ swResponse.kind = "fallback" =>
               /\ Belongs(swResponse.request, swResponse.category)
               /\ swResponse.url = HandlerTable[swResponse.category]
               /\ \A i \in Servable : \A j \in 1..Len(FallbackOrder) :
                      FallbackOrder[j] = swResponse.category => j <= i

\* The same, for the handler of the service worker template alone.
C26_TemplateHandlerOnly ==
    swHandler = "template" => C26_OneFallbackOfOwnCategory

-----------------------------------------------------------------------------
(* Properties of useOnlineStatus (SpecHook) *)

\* The status after the updates not rendered yet.
SettledStatus == ApplyUpdates(hkReturned, hkQueue)

HandledOffline == \E i \in 1..Len(hkEvents) : hkEvents[i] = "offline"

StatusFollowsEvents ==
    hkClient /\ hkPhase = "mounted" =>
        /\ SettledStatus.isOnline =
               (IF hkEvents = <<>> THEN hkReported ELSE hkEvents[Len(hkEvents)] = "online")
        /\ SettledStatus.wasOffline = HandledOffline
        /\ hkQueue = <<>> => hkReturned = SettledStatus

    /\ hkReturned = OnlineStatus(TRUE, TRUE)

-----------------------------------------------------------------------------
(* Properties of the build adapter's hooks (SpecAdapter) *)

\* What generating and writing came to at the i-th call.
RunAt(i) == GenerateAndWrite(adConfig, adContext, adFs, adResults[i].before, 0)

BuildSkipped == adConfig.disable \/ (~adContext.isProduction /\ ~DevEnabled(adConfig))

LastLog(call) == call.logs[Len(call.logs)]

DiskAfter(i) == IF i = Len(adResults) THEN adDisk ELSE adResults[i + 1].before

\* C24: onBuildComplete rejects exactly when it was not skipped and
\* generating or writing the manifest failed, with the error that was
\* thrown, after logging it as an error; onHotReload never rejects, logs a
\* failure as a warning, and logs nothing and leaves the output file alone
\* unless devOptions.enabled is true.
C24_BuildRejectsHotReloadSwallows ==
    \A i \in 1..Len(adResults) :
        LET call == adResults[i]
        IN  IF call.hook = "onBuildComplete"
            THEN /\ call.settled = "rejected" <=> (~BuildSkipped /\ RunAt(i).threw)
                 /\ call.settled = "rejected" =>
                        /\ call.error = RunAt(i).error
                        /\ LastLog(call) = Logged("error", RunAt(i).error)
            ELSE /\ call.settled = "resolved"
                 /\ ~DevEnabled(adConfig) => call.logs = <<>> /\ DiskAfter(i) = call.before
                 /\ DevEnabled(adConfig) /\ RunAt(i).threw =>
                        LastLog(call) = Logged("warn", RunAt(i).error)

\* A build hook that rejected because the manifest could not be written,
\* followed by a hot reload that failed the same way and resolved.
C24_Witness ==
    /\ Len(adResults) = 2
    /\ adResults[1].hook = "onBuildComplete"
    /\ adResults[1].settled = "rejected"
    /\ adResults[1].error = "Failed to write PWA manifest"
    /\ adResults[2].hook = "onHotReload"
    /\ adResults[2].settled = "resolved"
    /\ Len(adResults[2].logs) = 2
    /\ LastLog(adResults[2]) = Logged("warn", "Failed to write PWA manifest")

-----------------------------------------------------------------------------
(* Properties of compileServiceWorker (SpecCompile) *)

\* C29: once compileServiceWorker has succeeded, every injected global the
\* service worker template reads is in the define table, every text in the
\* table was produced by escapeForServiceWorker, and the compiled worker
\* starts without reading an undefined global.
C29_TemplateGlobalsDefinedAndEscaped ==
    cmResult = "success" =>
        /\ TemplateGlobals \subseteq DefinedNames(cmDefine)
        /\ \A i \in 1..Len(cmDefine) : cmDefine[i].by = "escapeForServiceWorker"
        /\ cmWorker.started => cmWorker.error = ""

\* What does hold: the manifest, the config and a configured fallback table
\* are injected as escapeForServiceWorker wrote them.
C29_InjectedValuesEscaped ==
    cmResult = "success" =>
        \A i \in 1..Len(cmDefine) :
            cmDefine[i].name \in {"__PWA_MANIFEST__", "__PWA_CONFIG__"} =>
                cmDefine[i].by = "escapeForServiceWorker"

====
